---- MODULE Spec2Model ----
(***************************************************************************)
(* The queue-driven sync engine and record store of dcli                   *)
(* (src/dcli/src/activitystoreinterface.rs) and the hash conversion of the *)
(* definition cache (src/dcli/src/manifestinterface.rs).                   *)
(*                                                                         *)
(* Tables are sequences of rows in insertion order; a row's id is its      *)
(* position.  Every store statement and collaborator call whose result the *)
(* code propagates with `?` can fail: a failure is an input of the action, *)
(* drawn while the budget `faults` lasts.                                  *)
(***************************************************************************)
EXTENDS Integers, Sequences, FiniteSets, TLC

(* ------------------------------ bounds --------------------------------- *)
\* Number of remote events the collaborator can know of (ids 1..NumEvents).
NumEvents == 2
\* Number of failures (store statements, fetches) injected in one behaviour.
MaxFaults == 1
\* Number of top-level sync calls in one behaviour.
MaxSyncs == 3
\* Ids in the queue when a drain of more than one batch starts.
MaxQueued == 26

(* -------------------------- program constants -------------------------- *)
PGCR_REQUEST_CHUNK_AMOUNT == 24
NO_TEAMS_INDEX == 253
DB_SCHEMA_VERSION == 6
\* The two director-activity hashes of gambit private matches.
\* A u32 is written <<hi, lo>>, its two 16-bit halves (hi * 65536 + lo).
\* 2526740498
GAMBIT_PRIVATE_HASH_A == <<38555, 18>>
\* 248695599
GAMBIT_PRIVATE_HASH_B == <<3794, 52015>>
\* Some director-activity hash that is not one of the two above.
OTHER_DIRECTOR_HASH == <<0, 1>>

PrivateMatchesAll == "PrivateMatchesAll"
AllPvP == "AllPvP"

(* --------------------------- the collaborator -------------------------- *)
\* The remote service: actors, their rosters and the events they played. All
\* events of EventIds have taken place before the first run.
Members == {"m1", "m2"}
Names == {"n1", "n2"}
EventIds == 1 .. NumEvents
Kinds == {"pub", "prv", "gambit"}
\* The kinds of event a store can hold when reports are drawn from it: also a
\* free-for-all (no teams), a three-team event, an event whose teams come
\* second team first, and a private event that carries a public mode tag too.
ReportKinds == Kinds \cup {"rumble", "three", "rev", "prvctl"}
\* The kinds of event a page can hold when discovery is looked at alone: also
\* events of the second gambit hash, and events of either hash that carry the
\* public mode tag.
PagedKinds == Kinds \cup {"gambit_b", "gambit_pub", "gambit_b_pub"}
\* The kinds of event a report is projected from when the projection is looked
\* at alone: also a two-team event with a participant whose team id is the id
\* of neither team.
ProjectedKinds == {"pub", "rumble", "three", "stray"}
Teamed == {"pub", "three", "rev", "prvctl"}

\* fetch_roster: the roster entries of an actor, in the order returned.
Roster(m) == IF m = "m1" THEN <<"c1", "c2">> ELSE <<"c3">>
MemberOf(ch) == IF ch = "c3" THEN "m2" ELSE "m1"
ClassOf(ch) == IF ch = "c1" THEN "Titan" ELSE IF ch = "c2" THEN "Hunter" ELSE "Warlock"

\* One participant entry of a detail payload.
Entry(ch, team) ==
    [membership_id |-> MemberOf(ch), display_name |-> "n1", character_id |-> ch,
     class |-> ClassOf(ch), team |-> team,
     medals |-> <<"precisionKills">>, weapons |-> <<<<0, 7>>>>]

\* fetch_event_detail: the detail payload of event id of kind k played at period p.
Detail(id, k, p) ==
    [instance_id |-> id, period |-> p,
     mode |-> IF k \in {"pub", "three", "rev", "prvctl", "gambit_pub", "gambit_b_pub",
                       "stray"}
              THEN "Control"
              ELSE IF k = "rumble" THEN "Rumble" ELSE PrivateMatchesAll,
     modes |-> IF k \in {"pub", "three", "rev", "gambit_pub", "gambit_b_pub", "stray"}
               THEN <<"Control", AllPvP>>
               ELSE IF k = "rumble" THEN <<"Rumble", AllPvP>>
               ELSE IF k = "prvctl" THEN <<PrivateMatchesAll, "Control">>
               ELSE <<PrivateMatchesAll>>,
     director_activity_hash |->
         IF k \in {"gambit", "gambit_pub"} THEN GAMBIT_PRIVATE_HASH_A
         ELSE IF k \in {"gambit_b", "gambit_b_pub"} THEN GAMBIT_PRIVATE_HASH_B
         ELSE OTHER_DIRECTOR_HASH,
     reference_id |-> IF k = "pub" THEN <<0, 1>> ELSE <<32768, 0>>,
     teams |-> IF k \in {"pub", "prvctl", "stray"} THEN <<1, 2>>
               ELSE IF k = "three" THEN <<1, 2, 3>>
               ELSE IF k = "rev" THEN <<2, 1>> ELSE <<>>,
     entries |-> IF k \in Teamed THEN <<Entry("c1", 1), Entry("c3", 2)>>
                 ELSE IF k = "rumble" THEN <<Entry("c1", 16), Entry("c3", 17)>>
                 ELSE IF k = "stray" THEN <<Entry("c1", 1), Entry("c3", 3)>>
                 ELSE <<Entry("c1", NO_TEAMS_INDEX)>>]

Participants(d) == {d.entries[i].character_id : i \in DOMAIN d.entries}
ModeSet(d) == {d.modes[i] : i \in DOMAIN d.modes}

(* ------------------------------ sequences ------------------------------ *)
Reverse(s) == [i \in 1 .. Len(s) |-> s[Len(s) + 1 - i]]

\* The ids in one batch, however many.
ChunksWhole(s, n) == IF Len(s) = 0 THEN <<>> ELSE <<s>>

RECURSIVE Chunks(_, _)
\* slice::chunks: consecutive chunks of at most n elements.
Chunks(s, n) ==
    IF Len(s) = 0 THEN <<>>
    ELSE IF Len(s) <= n THEN <<s>>
    ELSE <<SubSeq(s, 1, n)>> \o Chunks(SubSeq(s, n + 1, Len(s)), n)

\* The positions of the rows of table t that satisfy P.
Rows(t, P(_)) == {i \in DOMAIN t : P(t[i])}

(* ------------------------------ the store ------------------------------ *)
\* The version table: absent from the file, or holding rows of versions.
NoMarker == [exists |-> FALSE, rows |-> <<>>]
Marker(rows) == [exists |-> TRUE, rows |-> rows]
CurrentMarker == Marker(<<DB_SCHEMA_VERSION>>)
\* The markers a store file can hold when it is opened: none (a new file),
\* an empty table, or the version of the build that wrote it.
Markers ==
    {NoMarker, Marker(<<>>)}
    \cup {Marker(<<v>>) : v \in DB_SCHEMA_VERSION - 1 .. DB_SCHEMA_VERSION + 1}

EmptyStore ==
    [member |-> <<>>, character |-> <<>>, activity |-> <<>>, team_result |-> <<>>,
     modes |-> <<>>, character_activity_stats |-> <<>>, medal_result |-> <<>>,
     weapon_result |-> <<>>, activity_queue |-> <<>>]

\* SELECT id FROM activity WHERE activity_id = ?   (0: no row, an error)
get_activity_row_id(st, instance_id) ==
    LET hit == Rows(st.activity, LAMBDA r : r.activity_id = instance_id)
    IN  IF hit = {} THEN 0 ELSE CHOOSE i \in hit : \A j \in hit : i <= j

MemberRowId(st, member_id) ==
    LET hit == Rows(st.member, LAMBDA r : r.member_id = member_id)
    IN  IF hit = {} THEN 0 ELSE CHOOSE i \in hit : \A j \in hit : i <= j

CharacterRowId(st, character_id, member_row) ==
    LET hit == Rows(st.character,
                    LAMBDA r : r.character_id = character_id /\ r.member = member_row)
    IN  IF hit = {} THEN 0 ELSE CHOOSE i \in hit : \A j \in hit : i <= j

\* INSERT ... ON CONFLICT(member_id) DO UPDATE SET display_name = ?
insert_member_id(st, member_id, display_name) ==
    LET i == MemberRowId(st, member_id)
    IN  IF i = 0
        THEN [st EXCEPT !.member =
                 Append(@, [member_id |-> member_id, display_name |-> display_name])]
        ELSE [st EXCEPT !.member[i].display_name = display_name]

\* INSERT OR REPLACE: the class of the last call.
insert_character_id_replace(st, character_id, class, member_row) ==
    LET i == CharacterRowId(st, character_id, member_row)
    IN  IF i # 0 THEN [st EXCEPT !.character[i].class = class]
        ELSE [st EXCEPT !.character =
                 Append(@, [character_id |-> character_id, member |-> member_row,
                            class |-> class])]

\* INSERT OR IGNORE INTO character (character_id, member, class)
insert_character_id(st, character_id, class, member_row) ==
    IF CharacterRowId(st, character_id, member_row) # 0 THEN st
    ELSE [st EXCEPT !.character =
             Append(@, [character_id |-> character_id, member |-> member_row,
                        class |-> class])]

\* DELETE FROM activity_queue WHERE character = ? AND activity_id = ?
\* The removal of every Queue Entry of the event, whose ever it is.
remove_from_activity_queue_of_all(st, character_row_id, instance_id) ==
    [st EXCEPT !.activity_queue =
        SelectSeq(@, LAMBDA r : r.activity_id # instance_id)]

remove_from_activity_queue(st, character_row_id, instance_id) ==
    [st EXCEPT !.activity_queue =
        SelectSeq(@, LAMBDA r : ~(r.character = character_row_id
                                  /\ r.activity_id = instance_id))]

\* SELECT activity_id FROM activity_queue WHERE character = ?
QueuedIds(st, character_row_id) ==
    LET q == SelectSeq(st.activity_queue, LAMBDA r : r.character = character_row_id)
    IN  [i \in 1 .. Len(q) |-> q[i].activity_id]

InQueue(st, character_row_id, instance_id) ==
    \E i \in DOMAIN st.activity_queue :
        /\ st.activity_queue[i].character = character_row_id
        /\ st.activity_queue[i].activity_id = instance_id

(* ------------------------- the per-event insert ------------------------ *)
\* The writing statements of _insert_activity for payload d, in program order.
\* k names the statement, e the participant entry, x the team, mode, medal or
\* weapon it writes.
EntryStmts(d, e) ==
    <<[k |-> "member", e |-> e, x |-> 0], [k |-> "character", e |-> e, x |-> 0],
      [k |-> "stats", e |-> e, x |-> 0]>>
    \o [i \in 1 .. Len(d.entries[e].medals) |-> [k |-> "medal", e |-> e, x |-> i]]
    \o [i \in 1 .. Len(d.entries[e].weapons) |-> [k |-> "weapon", e |-> e, x |-> i]]

RECURSIVE AllEntryStmts(_, _)
AllEntryStmts(d, e) ==
    IF e > Len(d.entries) THEN <<>> ELSE EntryStmts(d, e) \o AllEntryStmts(d, e + 1)

Stmts(d) ==
    <<[k |-> "activity", e |-> 0, x |-> 0]>>
    \o [i \in 1 .. Len(d.teams) |-> [k |-> "team", e |-> 0, x |-> i]]
    \o [i \in 1 .. Len(d.modes) |-> [k |-> "mode", e |-> 0, x |-> i]]
    \o AllEntryStmts(d, 1)
    \o <<[k |-> "dequeue", e |-> 0, x |-> 0]>>

\* The row ids the statements of one participant entry work with.
EntryMemberRow(st, d, e) == MemberRowId(st, d.entries[e].membership_id)
EntryCharacterRow(st, d, e) ==
    CharacterRowId(st, d.entries[e].character_id, EntryMemberRow(st, d, e))
EntryStatsRow(st, d, e) ==
    LET hit == Rows(st.character_activity_stats,
                    LAMBDA r : /\ r.activity = get_activity_row_id(st, d.instance_id)
                               /\ r.character = EntryCharacterRow(st, d, e))
    IN  IF hit = {} THEN 0 ELSE CHOOSE i \in hit : \A j \in hit : i <= j

\* The effect of one statement of _insert_activity, called for the roster entry
\* with row id character_row_id.
ApplyStmt(st, d, character_row_id, s) ==
    LET arow == get_activity_row_id(st, d.instance_id) IN
    CASE s.k = "activity" ->
           \* INSERT OR IGNORE INTO activity
           IF arow # 0 THEN st
           ELSE [st EXCEPT !.activity =
                    Append(@, [activity_id |-> d.instance_id, period |-> d.period,
                               mode |-> d.mode,
                               director_activity_hash |-> d.director_activity_hash,
                               reference_id |-> d.reference_id])]
      [] s.k = "team" ->
           [st EXCEPT !.team_result =
               Append(@, [team_id |-> d.teams[s.x], activity |-> arow])]
      [] s.k = "mode" ->
           [st EXCEPT !.modes = Append(@, [mode |-> d.modes[s.x], activity |-> arow])]
      [] s.k = "member" ->
           insert_member_id(st, d.entries[s.e].membership_id,
                            d.entries[s.e].display_name)
      [] s.k = "character" ->
           insert_character_id(st, d.entries[s.e].character_id, d.entries[s.e].class,
                               EntryMemberRow(st, d, s.e))
      [] s.k = "stats" ->
           [st EXCEPT !.character_activity_stats =
               Append(@, [character |-> EntryCharacterRow(st, d, s.e),
                          team |-> d.entries[s.e].team, activity |-> arow])]
      [] s.k = "medal" ->
           [st EXCEPT !.medal_result =
               Append(@, [reference_id |-> d.entries[s.e].medals[s.x],
                          character_activity_stats |-> EntryStatsRow(st, d, s.e)])]
      [] s.k = "weapon" ->
           [st EXCEPT !.weapon_result =
               Append(@, [reference_id |-> d.entries[s.e].weapons[s.x],
                          character_activity_stats |-> EntryStatsRow(st, d, s.e)])]
      [] s.k = "dequeue" ->
           remove_from_activity_queue(st, character_row_id, d.instance_id)

RECURSIVE ExecStmts(_, _, _, _, _)
\* Runs the statements from position i on; statement number failAt fails
\* (0: none does).  The result is the working state and whether all ran.
ExecStmts(st, d, character_row_id, i, failAt) ==
    IF i > Len(Stmts(d)) THEN [ok |-> TRUE, st |-> st]
    ELSE IF i = failAt THEN [ok |-> FALSE, st |-> st]
    ELSE ExecStmts(ApplyStmt(st, d, character_row_id, Stmts(d)[i]), d,
                   character_row_id, i + 1, failAt)

\* _insert_activity without the look-up of the event: every call inserts.
_insert_activity_unchecked(st, d, character_row_id, failAt) ==
    ExecStmts(st, d, character_row_id, 1, failAt)

\* The body of the per-event transaction: an event already stored is a success
\* that writes nothing.
_insert_activity(st, d, character_row_id, failAt) ==
    IF get_activity_row_id(st, d.instance_id) # 0 THEN [ok |-> TRUE, st |-> st]
    ELSE ExecStmts(st, d, character_row_id, 1, failAt)

\* A rollback that takes the committed rows with it.
RollbackEverything(before, working) == EmptyStore

\* A failure path that returns without ROLLBACK: what was written stays.
RollbackLost(before, working) == working

\* ROLLBACK: the state the transaction began in.
Rollback(before, working) == before

\* The failures of one insert_activity call: none, BEGIN, statement n of the
\* body, COMMIT, or PRAGMA OPTIMIZE.
NoFault == [at |-> "none", n |-> 0]
\* (No statement of the body runs, so none fails, when the event is stored.)
InsertFaults(st, d) ==
    {[at |-> a, n |-> 0] : a \in {"begin", "commit", "optimize"}}
    \cup {[at |-> "stmt", n |-> n] :
            n \in IF get_activity_row_id(st, d.instance_id) # 0 THEN {}
                  ELSE 1 .. Len(Stmts(d))}

\* BEGIN; _insert_activity; COMMIT and PRAGMA OPTIMIZE, or ROLLBACK.
\* insert_activity that returns the error of a data statement as it is, with
\* no ROLLBACK: the transaction stays open.
insert_activity_unclosed(st, d, character_row_id, f) ==
    IF f.at = "begin" THEN [ok |-> FALSE, st |-> st, txn |-> FALSE]
    ELSE LET r == _insert_activity(st, d, character_row_id, f.n) IN
         IF ~r.ok THEN [ok |-> FALSE, st |-> st, txn |-> TRUE]
         ELSE IF f.at = "commit"
         THEN [ok |-> FALSE, st |-> Rollback(st, r.st), txn |-> TRUE]
         ELSE IF f.at = "optimize" THEN [ok |-> FALSE, st |-> r.st, txn |-> FALSE]
         ELSE [ok |-> TRUE, st |-> r.st, txn |-> FALSE]

\* txn tells whether the transaction the call began is still open when it
\* returns: BEGIN opens it, COMMIT and ROLLBACK close it, and a COMMIT that fails
\* is returned with `?` and followed by no ROLLBACK.
insert_activity(st, d, character_row_id, f) ==
    IF f.at = "begin" THEN [ok |-> FALSE, st |-> st, txn |-> FALSE]
    ELSE LET r == _insert_activity(st, d, character_row_id, f.n) IN
         IF ~r.ok THEN [ok |-> FALSE, st |-> Rollback(st, r.st), txn |-> FALSE]
         ELSE IF f.at = "commit"
         THEN [ok |-> FALSE, st |-> Rollback(st, r.st), txn |-> TRUE]
         ELSE IF f.at = "optimize" THEN [ok |-> FALSE, st |-> r.st, txn |-> FALSE]
         ELSE [ok |-> TRUE, st |-> r.st, txn |-> FALSE]

(* --------------------------- hash conversion --------------------------- *)
\* A 64-bit signed value is written <<hi, lo>> too: hi * 65536 + lo, with
\* 0 <= lo < 65536 and hi of either sign.
I64Value(v) == v[1] * 65536 + v[2]
\* id & (1 << n), for a non-negative id and 16 <= n < 32
BitSet(v, n) == (v[1] \div (2 ^ (n - 16))) % 2 = 1
\* id - (1 << 32)
Sub2Pow32(v) == <<v[1] - 65536, v[2]>>

\* id - (1 << 31)
Sub2Pow31(v) == <<v[1] - 32768, v[2]>>
\* convert_hash_to_id with 1 << 31 subtracted instead of 1 << 32.
convert_hash_to_id_half(hash) ==
    LET id == hash
    IN  IF BitSet(id, 32 - 1) THEN I64Value(Sub2Pow31(id)) ELSE I64Value(id)

\* convert_hash_to_id(hash: u32) -> i64
convert_hash_to_id(hash) ==
    LET id == hash
    IN  IF BitSet(id, 32 - 1) THEN I64Value(Sub2Pow32(id)) ELSE I64Value(id)

(* ------------------------- the definition cache ------------------------- *)
\* The hashes and keys looked up, per definition type, and the payloads a row
\* of the reference dataset can hold.
ActivityHashes == {<<0, 1>>, <<32768, 0>>}
ItemHashes == {<<0, 7>>, <<65535, 65535>>}
StatsKeys == {"precisionKills"}
Payloads == {"a", "b"}
DefinitionTypes == {"activity", "item", "stats"}
KeysOf(type) ==
    IF type = "activity" THEN ActivityHashes
    ELSE IF type = "item" THEN ItemHashes ELSE StatsKeys
\* The key a lookup of the type uses in the dataset and in the cache.
CacheKey(type, key) == IF type = "stats" THEN key ELSE convert_hash_to_id(key)

EmptyMap == <<>>
\* The tables of the reference dataset a definition can be absent from.
Tables(S) == UNION {[D -> Payloads] : D \in SUBSET S}
\* ManifestInterface::new: the dataset of the connection and three empty caches.
NewManifest(db) ==
    [manifest_db |-> db,
     activity_definition_cache |-> EmptyMap,
     inventory_item_definition_cache |-> EmptyMap,
     historical_stats_definition_cache |-> EmptyMap]
TableOf(m, type) ==
    IF type = "activity" THEN m.manifest_db.DestinyActivityDefinition
    ELSE IF type = "item" THEN m.manifest_db.DestinyInventoryItemDefinition
    ELSE m.manifest_db.DestinyHistoricalStatsDefinition
CacheOf(m, type) ==
    IF type = "activity" THEN m.activity_definition_cache
    ELSE IF type = "item" THEN m.inventory_item_definition_cache
    ELSE m.historical_stats_definition_cache

\* get_definition: the first row of the query, parsed; no row is None. fail
\* is the failure of the query.
get_definition(table, key, fail) ==
    IF fail THEN [ok |-> FALSE, some |-> FALSE, v |-> ""]
    ELSE IF key \notin DOMAIN table THEN [ok |-> TRUE, some |-> FALSE, v |-> ""]
    ELSE [ok |-> TRUE, some |-> TRUE, v |-> table[key]]

\* The answer of a lookup: ok (not Err), some and v (the Option), the
\* ManifestInterface after the call, and whether the dataset was queried.
Cached(m, v) == [ok |-> TRUE, some |-> TRUE, v |-> v, m |-> m, queried |-> FALSE]
Queried(m, data) ==
    [ok |-> data.ok, some |-> data.some, v |-> data.v, m |-> m, queried |-> TRUE]

\* get_activity_definition that remembers a miss as an empty definition.
get_activity_definition_negative(m, hash, fail) ==
    LET id == convert_hash_to_id(hash) IN
    IF id \in DOMAIN m.activity_definition_cache
    THEN Cached(m, m.activity_definition_cache[id])
    ELSE LET data == get_definition(m.manifest_db.DestinyActivityDefinition, id, fail) IN
         IF data.ok
         THEN Queried([m EXCEPT !.activity_definition_cache = (id :> data.v) @@ @], data)
         ELSE Queried(m, data)

get_activity_definition(m, hash, fail) ==
    LET id == convert_hash_to_id(hash) IN
    IF id \in DOMAIN m.activity_definition_cache
    THEN Cached(m, m.activity_definition_cache[id])
    ELSE LET data == get_definition(m.manifest_db.DestinyActivityDefinition, id, fail) IN
         IF data.ok /\ data.some
         THEN Queried([m EXCEPT !.activity_definition_cache = (id :> data.v) @@ @], data)
         ELSE Queried(m, data)

\* get_iventory_item_definition that returns what it finds and keeps nothing.
get_iventory_item_definition_uncached(m, hash, fail) ==
    LET id == convert_hash_to_id(hash) IN
    IF id \in DOMAIN m.inventory_item_definition_cache
    THEN Cached(m, m.inventory_item_definition_cache[id])
    ELSE Queried(m, get_definition(m.manifest_db.DestinyInventoryItemDefinition, id, fail))

get_iventory_item_definition(m, hash, fail) ==
    LET id == convert_hash_to_id(hash) IN
    IF id \in DOMAIN m.inventory_item_definition_cache
    THEN Cached(m, m.inventory_item_definition_cache[id])
    ELSE LET data == get_definition(m.manifest_db.DestinyInventoryItemDefinition, id, fail) IN
         IF data.ok /\ data.some
         THEN Queried([m EXCEPT !.inventory_item_definition_cache = (id :> data.v) @@ @],
                      data)
         ELSE Queried(m, data)

get_historical_stats_definition(m, id, fail) ==
    LET key == id IN
    IF key \in DOMAIN m.historical_stats_definition_cache
    THEN Cached(m, m.historical_stats_definition_cache[key])
    ELSE LET data == get_definition(m.manifest_db.DestinyHistoricalStatsDefinition, key, fail) IN
         IF data.ok /\ data.some
         THEN Queried([m EXCEPT !.historical_stats_definition_cache = (key :> data.v) @@ @],
                      data)
         ELSE Queried(m, data)

\* The lookup of a definition of the type.
GetDefinition(m, type, key, fail) ==
    IF type = "activity" THEN get_activity_definition(m, key, fail)
    ELSE IF type = "item" THEN get_iventory_item_definition(m, key, fail)
    ELSE get_historical_stats_definition(m, key, fail)

\* The three lookups that keep no cache: the query runs on every call.
get_destination_definition(m, id, fail) ==
    Queried(m, get_definition(m.manifest_db.DestinyDestinationDefinition,
                              convert_hash_to_id(id), fail))
get_place_definition(m, id, fail) ==
    Queried(m, get_definition(m.manifest_db.DestinyPlaceDefinition,
                              convert_hash_to_id(id), fail))
get_activity_type_definition(m, id, fail) ==
    Queried(m, get_definition(m.manifest_db.DestinyActivityTypeDefinition,
                              convert_hash_to_id(id), fail))

\* The definition types a ManifestInterface serves, and the lookup of each.
ServedTypes == DefinitionTypes \cup {"destination", "place", "activity_type"}
GetServedDefinition(m, type, key, fail) ==
    IF type \in DefinitionTypes THEN GetDefinition(m, type, key, fail)
    ELSE IF type = "destination" THEN get_destination_definition(m, key, fail)
    ELSE IF type = "place" THEN get_place_definition(m, key, fail)
    ELSE get_activity_type_definition(m, key, fail)

\* The tables of the reference dataset, in the order sqlite_master lists them.
get_tables(m) ==
    <<"DestinyActivityDefinition", "DestinyInventoryItemDefinition",
      "DestinyHistoricalStatsDefinition", "DestinyDestinationDefinition",
      "DestinyPlaceDefinition", "DestinyActivityTypeDefinition">>
\* Those with a column named id: the historical stats are found by key.
get_tables_with_id_column(m) ==
    SelectSeq(get_tables(m), LAMBDA t : t # "DestinyHistoricalStatsDefinition")

\* SELECT json FROM table WHERE id=?, for each table in turn: the rows found.
RECURSIVE FindRows(_, _, _)
FindRows(m, tables, id) ==
    IF tables = <<>> THEN <<>>
    ELSE LET table == m.manifest_db[Head(tables)]
         IN  (IF id \in DOMAIN table THEN <<table[id]>> ELSE <<>>)
             \o FindRows(m, Tail(tables), id)

\* find that stops at the first row found.
find_first(m, hash, fail) ==
    LET id == convert_hash_to_id(hash)
        out == FindRows(m, get_tables_with_id_column(m), id)
    IN  IF fail # "none" THEN [ok |-> FALSE, out |-> <<>>]
        ELSE [ok |-> TRUE, out |-> IF out = <<>> THEN <<>> ELSE <<Head(out)>>]

\* find(hash: u32). fail names what fails, if anything: the query for the
\* tables, the query of a table, or the parsing of a row found.
find(m, hash, fail) ==
    LET id == convert_hash_to_id(hash)
        out == FindRows(m, get_tables_with_id_column(m), id)
    IN  IF fail # "none" THEN [ok |-> FALSE, out |-> <<>>]
        ELSE [ok |-> TRUE, out |-> out]

(* ------------------------------ discovery ------------------------------ *)
\* The ids of the stored events of the roster entry that carry the mode tag and
\* whose period no other such event exceeds (ORDER BY period DESC LIMIT 1 picks
\* one of them); {0} when there is none.
get_max_activity_id(st, character_row_id, mode) ==
    LET joined == {i \in DOMAIN st.activity :
                     /\ \E j \in DOMAIN st.character_activity_stats :
                          /\ st.character_activity_stats[j].activity = i
                          /\ st.character_activity_stats[j].character = character_row_id
                     /\ \E j \in DOMAIN st.modes :
                          st.modes[j].activity = i /\ st.modes[j].mode = mode}
        latest == {i \in joined :
                     \A j \in joined : st.activity[j].period <= st.activity[i].period}
    IN  IF joined = {} THEN {0} ELSE {st.activity[i].activity_id : i \in latest}

\* The test without the second hash.
IsGambitPrivateFirst(director_activity_hash) ==
    director_activity_hash = GAMBIT_PRIVATE_HASH_A

\* Whether discovery leaves the event out of the queue.
IsGambitPrivate(director_activity_hash) ==
    \/ director_activity_hash = GAMBIT_PRIVATE_HASH_A
    \/ director_activity_hash = GAMBIT_PRIVATE_HASH_B

\* The events of a page that discovery queues, in the order returned.
QueueableAsReturned(page) ==
    SelectSeq(page, LAMBDA a : ~IsGambitPrivate(a.director_activity_hash))

\* The events of a page that discovery queues, oldest first.
Queueable(page) ==
    SelectSeq(Reverse(page), LAMBDA a : ~IsGambitPrivate(a.director_activity_hash))

RECURSIVE QueueInserts(_, _, _, _, _, _)
\* The queue inserts of one page from position i on; insert number failAt
\* fails, and so does an insert of a pair already queued when the schema
\* declares the pair unique.
QueueInserts(st, character_row_id, acts, i, failAt, unique) ==
    IF i > Len(acts) THEN [ok |-> TRUE, st |-> st]
    ELSE IF i = failAt \/ (unique /\ InQueue(st, character_row_id, acts[i].instance_id))
    THEN [ok |-> FALSE, st |-> st]
    ELSE QueueInserts(
             [st EXCEPT !.activity_queue =
                 Append(@, [activity_id |-> acts[i].instance_id,
                            character |-> character_row_id])],
             character_row_id, acts, i + 1, failAt, unique)

\* The failures of one _update_activity_queue call over a page: none, BEGIN,
\* queue insert n, or COMMIT.
QueueFaults(page) ==
    {[at |-> a, n |-> 0] : a \in {"begin", "commit"}}
    \cup {[at |-> "stmt", n |-> n] : n \in 1 .. Len(Queueable(page))}

\* _update_activity_queue with each insert in a transaction of its own: the
\* inserts before a failed one stay.
_update_activity_queue_partial(st, character_row_id, page, f, unique) ==
    IF f.at = "begin"
    THEN [ok |-> FALSE, st |-> st, total |-> 0, failed |-> "begin", dirty |-> FALSE,
          txn |-> FALSE]
    ELSE LET r == QueueInserts(st, character_row_id, Queueable(page), 1, f.n, unique) IN
         IF ~r.ok
         THEN [ok |-> FALSE, st |-> r.st, total |-> 0, failed |-> "stmt",
               dirty |-> r.st # st, txn |-> FALSE]
         ELSE IF f.at = "commit"
         THEN [ok |-> FALSE, st |-> r.st, total |-> 0, failed |-> "commit",
               dirty |-> r.st # st, txn |-> TRUE]
         ELSE [ok |-> TRUE, st |-> r.st, total |-> Len(Queueable(page)),
               failed |-> "none", dirty |-> FALSE, txn |-> FALSE]

\* The transaction of _update_activity_queue over the page the collaborator
\* returned (newest first).
\* failed names the statement that failed; dirty tells whether rows had been
\* written when it did.
_update_activity_queue(st, character_row_id, page, f, unique) ==
    IF f.at = "begin"
    THEN [ok |-> FALSE, st |-> st, total |-> 0, failed |-> "begin", dirty |-> FALSE,
          txn |-> FALSE]
    ELSE LET r == QueueInserts(st, character_row_id, Queueable(page), 1, f.n, unique) IN
         IF ~r.ok
         THEN [ok |-> FALSE, st |-> Rollback(st, r.st), total |-> 0,
               failed |-> "stmt", dirty |-> r.st # st, txn |-> FALSE]
         ELSE IF f.at = "commit"
         THEN [ok |-> FALSE, st |-> Rollback(st, r.st), total |-> 0,
               failed |-> "commit", dirty |-> r.st # st, txn |-> TRUE]
         ELSE [ok |-> TRUE, st |-> r.st, total |-> Len(Queueable(page)),
               failed |-> "none", dirty |-> FALSE, txn |-> FALSE]

(* ------------------------------- the run ------------------------------- *)
\* sync with the discovery of the private scope moved before the first drain.
SyncPhasesDiscoverFirst == <<"discover_prv", "drain", "discover_pub", "drain">>

\* The phases of sync for one roster entry, in program order.
SyncPhases == <<"drain", "discover_prv", "discover_pub", "drain">>
ScopeMode(phase) == IF phase = "discover_prv" THEN PrivateMatchesAll ELSE AllPvP
Scopes == {PrivateMatchesAll, AllPvP}
Characters == {"c1", "c2", "c3"}

\* The totals without the subtraction of what was synced.
CharacterTotalsAvailable(a, c) ==
    [synced |-> a.synced + c.synced, queue |-> a.available + c.available]

\* total_synced and total_available of one roster entry in sync's result, from
\* the results a and c of its first and last drain.
\* The queue count taken from the ids the first pass read alone.
CharacterTotalsFirstPass(a, c) ==
    [synced |-> a.synced + c.synced,
     queue |-> a.available - (a.synced + c.synced)]

CharacterTotals(a, c) ==
    [synced |-> a.synced + c.synced,
     queue |-> (a.available + c.available) - (a.synced + c.synced)]

VARIABLES
    kindOf,        \* collaborator: the kind of each event
    periodOf,      \* collaborator: the period of each event
    queue_unique,  \* schema: whether activity_queue declares (activity_id, character) unique
    store,         \* the record store, as committed
    pc,            \* position of the run: idle, char, phase, fetch, insert, drain_end
    member,        \* sync: the actor being synced
    ci,            \* sync: position in the actor's roster
    crow,          \* sync: row id of the current roster entry
    ph,            \* sync: position in SyncPhases
    chunks,        \* sync_activities: the batches of ids still to fetch
    batch,         \* sync_activities: the fetched results of the batch still to insert
    cur,           \* sync_activities: total_available and total_synced so far
    dr,            \* sync: the results of the drains of the current roster entry
    total,         \* sync: total_synced and total_in_queue
    since,         \* the since-ids this sync call passed to the collaborator
    phases,        \* the phases run so far for the current roster entry
    faults,        \* failures injected so far
    log,           \* what each sync call so far returned
    lastIns,       \* the event and outcome of the insert_activity call before the last
    ev,            \* the last drain item or discovery: its input and outcome
    h1, h2,        \* hash conversion: two hashes
    id1, id2,      \* hash conversion: their ids (<<id>>), once converted
    manifest,      \* ManifestInterface: the reference dataset and the three caches
    lk,            \* the last definition lookup: its input and outcome
    seen,          \* the keys looked up so far, per definition type
    version,       \* the store's version table: whether it exists, and its rows
    handle         \* what the last init_with_path returned: ok, err, or none yet

vars == <<kindOf, periodOf, queue_unique, store, pc, member, ci, crow, ph,
          chunks, batch, cur, dr, total, since, phases, faults, log, lastIns, ev,
          h1, h2, id1, id2, manifest, lk, seen, version, handle>>
hashvars == <<h1, h2, id1, id2>>
cachevars == <<manifest, lk, seen>>
openvars == <<version, handle>>
\* The variables the run does not touch.
others == <<hashvars, cachevars, openvars>>
world == <<kindOf, periodOf, queue_unique>>
locals == <<member, ci, crow, ph, chunks, batch, cur, dr, total, since, phases>>

DetailOf(id) == Detail(id, kindOf[id], periodOf[id])
Summary(id) ==
    [instance_id |-> id, director_activity_hash |-> DetailOf(id).director_activity_hash]

RECURSIVE NewestFirst(_)
\* The events of S as summaries, latest period first.
NewestFirst(S) ==
    IF S = {} THEN <<>>
    ELSE LET x == CHOOSE y \in S : \A z \in S : periodOf[z] <= periodOf[y]
         IN  <<Summary(x)>> \o NewestFirst(S \ {x})

\* fetch_events_since: the events of the roster entry in the mode that are
\* newer than the event since_id, newest first.
retrieve_activities_since_id(ch, mode, since_id) ==
    LET mine == {e \in EventIds : ch \in Participants(DetailOf(e)) /\ mode \in ModeSet(DetailOf(e))}
        newer == IF since_id \in mine
                 THEN {e \in mine : periodOf[e] > periodOf[since_id]} ELSE mine
    IN  NewestFirst(newer)

\* op: insert (a payload was inserted), fetch (a fetch gave no payload) or
\* discover; c, id: the roster entry and the event (for discover: the since-id);
\* mode: the scope of a discover; at: the statement that failed; again: the event
\* was stored before the call; twice: the call before was a successful insert of
\* the same event; dirty: rows had been written when the statement failed;
\* page: the ids discover had to queue, oldest first.
Quiet == [op |-> "none", c |-> 0, id |-> 0, mode |-> "", at |-> "none", ok |-> TRUE,
          again |-> FALSE, twice |-> FALSE, dirty |-> FALSE, page |-> <<>>,
          txn |-> FALSE]
NoInsert == [id |-> 0, ok |-> FALSE]
ZeroResult == [available |-> 0, synced |-> 0]
ZeroTotal == [synced |-> 0, queue |-> 0]
NoSince == [x \in {} |-> 0]

Permutations1(n) == {f \in [1 .. n -> 1 .. n] : \A i, j \in 1 .. n : f[i] = f[j] => i = j}

\* The reference dataset of the runs that look nothing up on their own.
DefaultDataset ==
    [DestinyActivityDefinition |-> (1 :> "a"),
     DestinyInventoryItemDefinition |-> (7 :> "b"),
     DestinyHistoricalStatsDefinition |-> EmptyMap]
NoLookup == [op |-> "none", type |-> "", key |-> "", ok |-> TRUE, some |-> FALSE,
             v |-> "", queried |-> FALSE, before |-> FALSE]
NothingSeen == [t \in DefinitionTypes |-> {}]
\* The variables of the other parts, at rest.
HashRest == h1 = <<0, 0>> /\ h2 = <<0, 0>> /\ id1 = <<>> /\ id2 = <<>>
CacheRest == manifest = NewManifest(DefaultDataset) /\ lk = NoLookup /\ seen = NothingSeen
\* A store opened by this build: the marker is the build's, the open returned Ok.
OpenRest == version = CurrentMarker /\ handle = "ok"
SyncRest ==
    /\ kindOf = [e \in EventIds |-> "pub"]
    /\ periodOf = [e \in EventIds |-> e]
    /\ queue_unique = TRUE
    /\ store = EmptyStore
    /\ pc = "idle" /\ member = "none" /\ ci = 0 /\ crow = 0 /\ ph = 0
    /\ chunks = <<>> /\ batch = <<>> /\ cur = ZeroResult /\ dr = <<>>
    /\ total = ZeroTotal /\ since = NoSince /\ phases = <<>>
    /\ faults = 0 /\ log = <<>> /\ lastIns = NoInsert /\ ev = Quiet

Init ==
    /\ kindOf \in [EventIds -> Kinds]
    /\ periodOf \in Permutations1(NumEvents)
    /\ queue_unique \in BOOLEAN
    /\ store = EmptyStore
    /\ pc = "idle" /\ member = "none" /\ ci = 0 /\ crow = 0 /\ ph = 0
    /\ chunks = <<>> /\ batch = <<>> /\ cur = ZeroResult /\ dr = <<>>
    /\ total = ZeroTotal /\ since = NoSince /\ phases = <<>>
    /\ faults = 0 /\ log = <<>> /\ lastIns = NoInsert /\ ev = Quiet
    /\ HashRest /\ CacheRest /\ OpenRest

CanFail == faults < MaxFaults

\* sync returns: the locals of the call are gone.
Return(entry) ==
    /\ log' = Append(log, entry)
    /\ pc' = "idle" /\ member' = "none" /\ ci' = 0 /\ crow' = 0 /\ ph' = 0
    /\ chunks' = <<>> /\ batch' = <<>> /\ cur' = ZeroResult /\ dr' = <<>>
    /\ total' = ZeroTotal /\ since' = NoSince /\ phases' = <<>>

\* What a call leaves in the log: its result, the since-ids it passed and the
\* number of failures the program had met when it returned.
ErrEntry == [member |-> member, ok |-> FALSE, synced |-> 0, queue |-> 0,
             since |-> since, failed |-> faults + 1]
OkEntry(t) == [member |-> member, ok |-> TRUE, synced |-> t.synced, queue |-> t.queue,
               since |-> since, failed |-> faults]

\* sync with the actor upserted before the roster is fetched: a failed fetch
\* leaves the Actor row behind.
SyncBeginUpsertFirst ==
    /\ pc = "idle" /\ Len(log) < MaxSyncs
    /\ ev' = Quiet
    /\ \E m \in Members, ok \in BOOLEAN :
         /\ ok \/ CanFail
         /\ store' = insert_member_id(store, m, "n2")
         /\ IF ok
            THEN /\ member' = m /\ ci' = 1 /\ pc' = "char"
                 /\ UNCHANGED <<crow, ph, chunks, batch, cur, dr, total, since, phases,
                                faults, log>>
            ELSE /\ log' = Append(log, [ErrEntry EXCEPT !.member = m])
                 /\ faults' = faults + 1
                 /\ UNCHANGED <<pc, locals>>
    /\ UNCHANGED <<world, lastIns, others>>

\* sync, up to the loop over the roster: the roster fetch and the actor upsert.
SyncBegin ==
    /\ pc = "idle" /\ Len(log) < MaxSyncs
    /\ ev' = Quiet
    /\ \E m \in Members, ok \in BOOLEAN :
         /\ ok \/ CanFail
         /\ IF ok
            THEN /\ store' = insert_member_id(store, m, "n2")
                 /\ member' = m /\ ci' = 1 /\ pc' = "char"
                 /\ UNCHANGED <<crow, ph, chunks, batch, cur, dr, total, since, phases,
                                faults, log>>
            ELSE /\ log' = Append(log, [ErrEntry EXCEPT !.member = m])
                 /\ faults' = faults + 1
                 /\ UNCHANGED <<store, pc, locals>>
    /\ UNCHANGED <<world, lastIns, others>>

\* The head of the loop body: the roster entry upsert.
CharBegin ==
    /\ pc = "char"
    /\ ev' = Quiet
    /\ \/ /\ LET ch == Roster(member)[ci]
                 mrow == MemberRowId(store, member)
             IN  /\ store' = insert_character_id(store, ch, ClassOf(ch), mrow)
                 /\ crow' = CharacterRowId(store', ch, mrow)
          /\ ph' = 1 /\ pc' = "phase" /\ phases' = <<>> /\ dr' = <<>>
          /\ UNCHANGED <<member, ci, chunks, batch, cur, total, since, faults, log>>
       \/ /\ CanFail
          /\ faults' = faults + 1
          /\ Return(ErrEntry)
          /\ UNCHANGED store
    /\ UNCHANGED <<world, lastIns, others>>

\* A phase of the current roster entry is over: the next phase, the next
\* roster entry, or the end of sync.
Advance(results) ==
    IF ph < Len(SyncPhases)
    THEN /\ ph' = ph + 1 /\ pc' = "phase" /\ dr' = results
         /\ UNCHANGED <<member, ci, crow, total, log>>
    ELSE LET t == CharacterTotals(results[1], results[Len(results)])
             sum == [synced |-> total.synced + t.synced, queue |-> total.queue + t.queue]
         IN  IF ci < Len(Roster(member))
             THEN /\ ci' = ci + 1 /\ pc' = "char" /\ total' = sum /\ dr' = results
                  /\ UNCHANGED <<member, crow, ph, log>>
             ELSE /\ log' = Append(log, OkEntry(sum))
                  /\ pc' = "idle" /\ member' = "none" /\ ci' = 0 /\ crow' = 0 /\ ph' = 0
                  /\ dr' = <<>> /\ total' = ZeroTotal

\* sync_activities, up to the loop over the batches: the ids of the queue.
DrainBegin ==
    /\ pc = "phase" /\ SyncPhases[ph] = "drain"
    /\ ev' = Quiet
    /\ phases' = Append(phases, "drain")
    /\ LET ids == QueuedIds(store, crow) IN
         /\ cur' = [available |-> Len(ids), synced |-> 0]
         /\ chunks' = Chunks(ids, PGCR_REQUEST_CHUNK_AMOUNT)
         /\ pc' = IF Len(ids) = 0 THEN "drain_end" ELSE "fetch"
    /\ UNCHANGED <<world, store, member, ci, crow, ph, batch, dr, total,
                   since, faults, log, lastIns, others>>

FetchResults == {"some", "none", "err"}
Failures(res) == Cardinality({i \in DOMAIN res : res[i] # "some"})

\* The results of n fetches of which at most k do not return a payload.
RECURSIVE FetchOutcomes(_, _)
FetchOutcomes(n, k) ==
    IF k <= 0 THEN {[i \in 1 .. n |-> "some"]}
    ELSE LET fewer == FetchOutcomes(n, k - 1)
         IN  fewer \cup {[res EXCEPT ![i] = r] :
                            res \in fewer, i \in 1 .. n, r \in FetchResults}

\* The loop over the results ended by the first result that is not stored.
RestOfBatchUntilError(results, ok) == IF ok THEN Tail(results) ELSE <<>>

\* The results the loop over a batch still has to take after one of them,
\* whatever came of it: no arm of the match leaves the loop.
RestOfBatch(results, ok) == Tail(results)

\* The orders in which the n fetches of a batch complete: the i-th fetch is the
\* order[i]-th to complete. First issued first, or last issued first.
CompletionOrders(n) ==
    {[i \in 1 .. n |-> i], [i \in 1 .. n |-> n + 1 - i]}

\* The results of a batch handed over as the fetches complete.
join_all_as_completed(ids, res, order) ==
    [k \in 1 .. Len(ids) |->
        LET i == CHOOSE j \in 1 .. Len(ids) : order[j] = k
        IN  [id |-> ids[i], res |-> res[i], done |-> k]]

\* join_all: the results of the fetches of a batch, in the order the fetches
\* were issued, whatever the order they completed in.
join_all(ids, res, order) ==
    [i \in 1 .. Len(ids) |-> [id |-> ids[i], res |-> res[i], done |-> order[i]]]

\* join_all over one batch: every detail fetch of the batch has returned.
FetchBatch ==
    /\ pc = "fetch"
    /\ ev' = Quiet
    /\ \E res \in FetchOutcomes(Len(Head(chunks)), MaxFaults - faults),
          order \in CompletionOrders(Len(Head(chunks))) :
         /\ faults' = faults + Failures(res)
         /\ batch' = join_all(Head(chunks), res, order)
    /\ chunks' = Tail(chunks)
    /\ pc' = "insert"
    /\ UNCHANGED <<world, store, member, ci, crow, ph, cur, dr, total, since,
                   phases, log, lastIns, others>>

\* One fetched result of the batch: the insert of its payload, if it has one.
InsertItem ==
    /\ pc = "insert"
    /\ LET item == Head(batch)
           d == DetailOf(item.id)
       IN  IF item.res = "some"
           THEN \E f \in {NoFault} \cup (IF CanFail THEN InsertFaults(store, d) ELSE {}) :
                  LET r == insert_activity(store, d, crow, f) IN
                  /\ store' = r.st
                  /\ cur' = IF r.ok THEN [cur EXCEPT !.synced = @ + 1] ELSE cur
                  /\ faults' = IF f = NoFault THEN faults ELSE faults + 1
                  /\ lastIns' = [id |-> item.id, ok |-> r.ok]
                  /\ ev' = [op |-> "insert", c |-> crow, id |-> item.id, mode |-> "",
                            at |-> f.at, ok |-> r.ok,
                            again |-> get_activity_row_id(store, item.id) # 0,
                            twice |-> lastIns = [id |-> item.id, ok |-> TRUE],
                            dirty |-> f.at = "stmt"
                                      /\ ExecStmts(store, d, crow, 1, f.n).st # store,
                            page |-> <<>>, txn |-> r.txn]
           ELSE /\ ev' = [Quiet EXCEPT !.op = "fetch", !.c = crow, !.id = item.id,
                                       !.at = item.res, !.ok = FALSE]
                /\ UNCHANGED <<store, cur, faults, lastIns>>
    /\ batch' = RestOfBatch(batch, ev'.ok)
    /\ pc' = IF Len(batch') > 0 THEN "insert"
             ELSE IF Len(chunks) > 0 THEN "fetch" ELSE "drain_end"
    /\ UNCHANGED <<world, member, ci, crow, ph, chunks, dr, total, since,
                   phases, log, others>>

\* sync_activities returns its counts.
DrainEnd ==
    /\ pc = "drain_end"
    /\ ev' = Quiet
    /\ Advance(Append(dr, cur))
    /\ cur' = ZeroResult
    /\ phases' = IF pc' = "idle" THEN <<>> ELSE phases
    /\ since' = IF pc' = "idle" THEN NoSince ELSE since
    /\ UNCHANGED <<world, store, chunks, batch, faults, lastIns, others>>

\* _update_activity_queue for one visibility scope.
Discover ==
    /\ pc = "phase" /\ SyncPhases[ph] \in {"discover_prv", "discover_pub"}
    /\ LET mode == ScopeMode(SyncPhases[ph])
           ch == Roster(member)[ci]
       IN  \E max_id \in get_max_activity_id(store, crow, mode) :
             LET page == retrieve_activities_since_id(ch, mode, max_id)
                 used == (<<ch, mode>> :> max_id) @@ since
             IN  \/ \* the collaborator fails
                    /\ CanFail
                    /\ faults' = faults + 1
                    /\ ev' = [Quiet EXCEPT !.op = "discover", !.c = crow, !.at = "api",
                                           !.id = max_id, !.mode = mode, !.ok = FALSE]
                    /\ Return([ErrEntry EXCEPT !.since = used])
                    /\ UNCHANGED store
                 \/ \E f \in {NoFault} \cup (IF CanFail THEN QueueFaults(page) ELSE {}) :
                       LET r == _update_activity_queue(store, crow, page, f, queue_unique) IN
                       /\ store' = r.st
                       /\ faults' = IF f = NoFault THEN faults ELSE faults + 1
                       /\ ev' = [op |-> "discover", c |-> crow, id |-> max_id,
                                 mode |-> mode, at |-> r.failed, ok |-> r.ok,
                                 again |-> FALSE, twice |-> FALSE, dirty |-> r.dirty,
                                 page |-> [i \in 1 .. Len(Queueable(page)) |->
                                             Queueable(page)[i].instance_id],
                                 total |-> r.total, txn |-> r.txn]
                       /\ IF r.ok
                          THEN /\ Advance(dr)
                               /\ since' = used
                               /\ phases' = Append(phases, SyncPhases[ph])
                               /\ UNCHANGED <<chunks, batch, cur>>
                          ELSE Return([ErrEntry EXCEPT !.since = used,
                                                        !.failed = faults'])
    /\ UNCHANGED <<world, lastIns, others>>


(* -------------------- the hash conversion, on its own ------------------- *)
\* The halves the hashes are drawn from: the ends of the range and both sides
\* of bit 31 and of bit 15.
HashHi == {0, 1, 3794, 16384, 32767, 32768, 32769, 38555, 49152, 65535}
HashLo == {0, 1, 18, 32768, 52015, 65535}
Hashes == HashHi \X HashLo

HashInit ==
    /\ h1 \in Hashes /\ h2 \in Hashes /\ id1 = <<>> /\ id2 = <<>>
    /\ SyncRest /\ CacheRest /\ OpenRest

Convert ==
    /\ id1 = <<>>
    /\ id1' = <<convert_hash_to_id(h1)>>
    /\ id2' = <<convert_hash_to_id(h2)>>
    /\ UNCHANGED <<h1, h2, world, store, pc, locals, faults, log, lastIns, ev,
                   cachevars, openvars>>

HashNext == Convert
SpecHash == HashInit /\ [][HashNext]_vars

(* --------------------- the definition cache, in use --------------------- *)
\* Datasets: every table holds a payload for any of the keys, or none.
Datasets ==
    [DestinyActivityDefinition : Tables({CacheKey("activity", h) : h \in ActivityHashes}),
     DestinyInventoryItemDefinition : Tables({CacheKey("item", h) : h \in ItemHashes}),
     DestinyHistoricalStatsDefinition : Tables(StatsKeys)]

CacheInit ==
    /\ manifest \in {NewManifest(db) : db \in Datasets}
    /\ lk = NoLookup /\ seen = NothingSeen
    /\ SyncRest /\ HashRest /\ OpenRest

\* One call of a lookup function by a holder of the ManifestInterface.
Lookup ==
    \E type \in DefinitionTypes, fail \in BOOLEAN :
      \E key \in KeysOf(type) :
        LET r == GetDefinition(manifest, type, key, fail) IN
        /\ fail => (CanFail /\ r.queried)
        /\ manifest' = r.m
        /\ lk' = [op |-> "lookup", type |-> type, key |-> key, ok |-> r.ok,
                  some |-> r.some, v |-> r.v, queried |-> r.queried,
                  before |-> key \in seen[type]]
        /\ seen' = [seen EXCEPT ![type] = @ \cup {key}]
        /\ faults' = IF fail THEN faults + 1 ELSE faults
        /\ UNCHANGED <<world, store, pc, locals, log, lastIns, ev, hashvars, openvars>>

CacheNext == Lookup
SpecCache == CacheInit /\ [][CacheNext]_vars

(* ---------------------------- the two upserts ------------------------- *)
\* The roster entries and classes the upserts are called with.
UpsertCharacters == {"c1", "c3"}
UpsertClasses == {"Titan", "Warlock"}

UpsertInit == SyncRest /\ HashRest /\ CacheRest /\ OpenRest

\* insert_member_id: the upsert and the SELECT of the row id.
UpsertMember ==
    \E m \in Members, n \in Names, ok \in BOOLEAN :
       /\ ok \/ CanFail
       /\ store' = IF ok THEN insert_member_id(store, m, n) ELSE store
       /\ faults' = IF ok THEN faults ELSE faults + 1
       /\ ev' = [op |-> "upsert_member", key |-> m, arg |-> n, on |-> 0, ok |-> ok,
                 row |-> IF ok THEN MemberRowId(store', m) ELSE 0,
                 was |-> MemberRowId(store, m)]
       /\ UNCHANGED <<world, pc, locals, log, lastIns, others>>

\* insert_character_id, for the row id of an Actor stored.
UpsertCharacter ==
    \E ch \in UpsertCharacters, class \in UpsertClasses, mrow \in DOMAIN store.member,
       ok \in BOOLEAN :
       /\ ok \/ CanFail
       /\ store' = IF ok THEN insert_character_id(store, ch, class, mrow) ELSE store
       /\ faults' = IF ok THEN faults ELSE faults + 1
       /\ ev' = [op |-> "upsert_character", key |-> ch, arg |-> class, on |-> mrow,
                 ok |-> ok,
                 row |-> IF ok THEN CharacterRowId(store', ch, mrow) ELSE 0,
                 was |-> CharacterRowId(store, ch, mrow)]
       /\ UNCHANGED <<world, pc, locals, log, lastIns, others>>

UpsertNext == UpsertMember \/ UpsertCharacter
SpecUpsert == UpsertInit /\ [][UpsertNext]_vars

(* --------------------------- discovery, alone -------------------------- *)
\* sync for m1 at the discovery of c1, over a store that holds no event yet.
QueueInit ==
    /\ kindOf \in [EventIds -> PagedKinds]
    /\ periodOf \in Permutations1(NumEvents)
    /\ queue_unique \in BOOLEAN
    /\ store = insert_character_id(insert_member_id(EmptyStore, "m1", "n2"),
                                   "c1", ClassOf("c1"), 1)
    /\ pc = "phase" /\ member = "m1" /\ ci = 1 /\ crow = 1 /\ ph = 2
    /\ chunks = <<>> /\ batch = <<>> /\ cur = ZeroResult /\ dr = <<ZeroResult>>
    /\ total = ZeroTotal /\ since = NoSince /\ phases = <<"drain">>
    /\ faults = 0 /\ log = <<>> /\ lastIns = NoInsert /\ ev = Quiet
    /\ HashRest /\ CacheRest /\ OpenRest

QueueNext == Discover
SpecQueue == QueueInit /\ [][QueueNext]_vars

(* ------------------- the reference dataset, searched ------------------- *)
\* The rows a table with an id column holds for the ids looked up: each row's
\* json names its table.
IdRows(json) == {[id \in D |-> json] : D \in SUBSET {CacheKey("activity", h) : h \in ActivityHashes}}
SearchedDatasets ==
    [DestinyActivityDefinition : IdRows("a"),
     DestinyInventoryItemDefinition : {DefaultDataset.DestinyInventoryItemDefinition},
     DestinyHistoricalStatsDefinition : {("precisionKills" :> "s")},
     DestinyDestinationDefinition : IdRows("d"),
     DestinyPlaceDefinition : IdRows("p"),
     DestinyActivityTypeDefinition : IdRows("t")]

ManifestInit ==
    /\ manifest \in {NewManifest(db) : db \in SearchedDatasets}
    /\ lk = NoLookup /\ seen = NothingSeen
    /\ SyncRest /\ HashRest /\ OpenRest

FindFailures(m, hash) ==
    {"tables", "query"}
    \cup (IF find(m, hash, "none").out # <<>> THEN {"parse"} ELSE {})

\* The search tool: one find on a new ManifestInterface.
Find ==
    \E hash \in ActivityHashes :
      \E fail \in {"none"} \cup (IF CanFail THEN FindFailures(manifest, hash) ELSE {}) :
        LET r == find(manifest, hash, fail) IN
        /\ lk' = [op |-> "find", type |-> "", key |-> hash, ok |-> r.ok,
                  some |-> r.out # <<>>, v |-> "", queried |-> TRUE, before |-> FALSE,
                  out |-> r.out, at |-> fail]
        /\ faults' = IF fail = "none" THEN faults ELSE faults + 1
        /\ UNCHANGED <<world, store, pc, locals, log, lastIns, ev, hashvars, openvars,
                       manifest, seen>>

\* A lookup of a definition of any type served.
LookupServed ==
    \E type \in ServedTypes \ {"item", "stats"}, fail \in BOOLEAN :
      \E key \in ActivityHashes :
        LET r == GetServedDefinition(manifest, type, key, fail) IN
        /\ fail => (CanFail /\ r.queried)
        /\ manifest' = r.m
        /\ lk' = [op |-> "lookup", type |-> type, key |-> key, ok |-> r.ok,
                  some |-> r.some, v |-> r.v, queried |-> r.queried,
                  before |-> lk.op = "lookup" /\ lk.type = type /\ lk.key = key
                             /\ lk.ok /\ lk.some]
        /\ faults' = IF fail THEN faults + 1 ELSE faults
        /\ UNCHANGED <<world, store, pc, locals, log, lastIns, ev, hashvars, openvars,
                       seen>>

ManifestNext == Find \/ LookupServed
SpecManifest == ManifestInit /\ [][ManifestNext]_vars

(* ------------------------------ the reports ---------------------------- *)
\* populate_activity_data: the pool of team names, before it is reversed.
TEAM_NAMES == <<"Alpha", "Bravo", "Charlie", "Delta", "Echo", "Foxtrot">>
\* Mode::is_private
is_private(mode) == mode \in {PrivateMatchesAll, "PrivateMatchesControl"}
\* The modes a report is asked for.
Modes == {AllPvP, "Control", PrivateMatchesAll}

RECURSIVE SortedSeq(_)
\* The row ids of S in the order the store returns them.
SortedSeq(S) ==
    IF S = {} THEN <<>>
    ELSE LET m == CHOOSE x \in S : \A y \in S : x <= y
         IN  <<m>> \o SortedSeq(S \ {m})

RECURSIVE ResolveAll(_, _)
\* The lookups of a report, in order: the names found ("Unknown" on a miss)
\* and the ManifestInterface after them.
ResolveAll(m, lookups) ==
    IF lookups = <<>> THEN [m |-> m, names |-> <<>>]
    ELSE LET r == GetDefinition(m, Head(lookups).type, Head(lookups).key, FALSE)
             rest == ResolveAll(r.m, Tail(lookups))
         IN  [m |-> rest.m,
              names |-> <<IF r.some THEN r.v ELSE "Unknown">> \o rest.names]

\* character_activity_stats INNER JOIN character, member.
JoinedStats(st) ==
    {si \in DOMAIN st.character_activity_stats :
        /\ st.character_activity_stats[si].character \in DOMAIN st.character
        /\ st.character[st.character_activity_stats[si].character].member
               \in DOMAIN st.member}
CharacterOfStats(st, si) == st.character[st.character_activity_stats[si].character]
MemberOfStats(st, si) == st.member[CharacterOfStats(st, si).member]
HasMode(st, arow, mode) ==
    \E i \in DOMAIN st.modes : st.modes[i].activity = arow /\ st.modes[i].mode = mode

parse_player(st, si) ==
    [member_id |-> MemberOfStats(st, si).member_id,
     character_id |-> CharacterOfStats(st, si).character_id,
     display_name |-> MemberOfStats(st, si).display_name,
     class_type |-> CharacterOfStats(st, si).class]

parse_crucible_stats(st, m, si) ==
    LET weapons == SelectSeq(st.weapon_result,
                             LAMBDA r : r.character_activity_stats = si)
        medals == SelectSeq(st.medal_result,
                            LAMBDA r : r.character_activity_stats = si)
        r == ResolveAll(m,
               [i \in 1 .. Len(weapons) |->
                   [type |-> "item", key |-> weapons[i].reference_id]]
               \o [i \in 1 .. Len(medals) |->
                   [type |-> "stats", key |-> medals[i].reference_id]])
    IN  [m |-> r.m,
         stats |-> [team |-> st.character_activity_stats[si].team,
                    index |-> si,
                    weapons |-> SubSeq(r.names, 1, Len(weapons)),
                    medals |-> SubSeq(r.names, Len(weapons) + 1, Len(r.names))]]

parse_activity(st, m, arow) ==
    LET r == get_activity_definition(m, st.activity[arow].reference_id, FALSE)
    IN  [m |-> r.m,
         details |-> [index_id |-> arow, id |-> st.activity[arow].activity_id,
                      period |-> st.activity[arow].period,
                      map_name |-> IF r.some THEN r.v ELSE "Unknown",
                      mode |-> st.activity[arow].mode]]

RECURSIVE Performances(_, _, _)
\* The performances of the rows, in order: stats, then player.
Performances(st, m, rows) ==
    IF rows = <<>> THEN [m |-> m, perfs |-> <<>>]
    ELSE LET s1 == parse_crucible_stats(st, m, Head(rows))
             rest == Performances(st, s1.m, Tail(rows))
         IN  [m |-> rest.m,
              perfs |-> <<[stats |-> s1.stats, player |-> parse_player(st, Head(rows))]>>
                        \o rest.perfs]

\* The pool popped without having been reversed: the last name first.
PoppedNameUnreversed(n) ==
    IF n <= Len(TEAM_NAMES) THEN TEAM_NAMES[Len(TEAM_NAMES) + 1 - n] ELSE ""

\* The team a performance goes to, by the team its row names in every case.
TeamIndexOfRow(no_teams, team) == team

\* The team a performance goes to.
TeamIndex(no_teams, team) == IF no_teams THEN NO_TEAMS_INDEX ELSE team

\* team_names.pop(), for the n-th time, of the reversed pool.
PoppedName(n) ==
    IF n <= Len(TEAM_NAMES) THEN Reverse(TEAM_NAMES)[Len(TEAM_NAMES) + 1 - n] ELSE ""

\* The report of the event with row id arow: its teams by team id, and the
\* ManifestInterface after the lookups.
populate_activity_data(st, m, arow) ==
    LET team_rows == SelectSeq(st.team_result, LAMBDA r : r.activity = arow)
        no_teams == team_rows = <<>>
        ids == IF no_teams THEN {NO_TEAMS_INDEX}
               ELSE {team_rows[i].team_id : i \in DOMAIN team_rows}
        \* teams.insert(id, team): the last row of a team id stays
        LastRow(id) == CHOOSE i \in DOMAIN team_rows :
                          /\ team_rows[i].team_id = id
                          /\ \A j \in DOMAIN team_rows : j > i => team_rows[j].team_id # id
        ps == Performances(st, m,
                SortedSeq({si \in JoinedStats(st) :
                             st.character_activity_stats[si].activity = arow}))
        det == parse_activity(st, ps.m, arow)
    IN  [m |-> det.m,
         report |->
           [details |-> det.details,
            teams |-> [id \in ids |->
               [id |-> id,
                display_name |-> IF no_teams THEN PoppedName(1)
                                 ELSE PoppedName(LastRow(id)),
                player_performances |->
                    SelectSeq(ps.perfs,
                              LAMBDA p : TeamIndex(no_teams, p.stats.team) = id)]]]]

\* The events with the latest period among S (ORDER BY period DESC LIMIT 1).
Latest(st, S) ==
    {a \in S : \A b \in S : st.activity[b].period <= st.activity[a].period}

\* The rows the query of retrieve_activity_by_index selects from.
ByIndexRows(st, activity_index) ==
    {a \in DOMAIN st.activity :
        /\ a = activity_index
        /\ \E si \in JoinedStats(st) : st.character_activity_stats[si].activity = a}

\* The rows the query of retrieve_last_activity selects from, for all
\* characters of the actor.
LastRowsForMember(st, member_id, mode) ==
    {a \in DOMAIN st.activity :
        /\ \E si \in JoinedStats(st) :
             /\ st.character_activity_stats[si].activity = a
             /\ MemberOfStats(st, si).member_id = member_id
        /\ HasMode(st, a, mode)}

\* The same for one roster entry.
LastRowsForCharacter(st, character_id, mode) ==
    {a \in DOMAIN st.activity :
        /\ \E si \in JoinedStats(st) :
             /\ st.character_activity_stats[si].activity = a
             /\ CharacterOfStats(st, si).character_id = character_id
        /\ HasMode(st, a, mode)}

\* retrieve_character_selection_id: the roster entry of the class, from the
\* collaborator's roster ("": there is none).
CharacterClassSelections == {"All", "Titan", "Warlock"}
retrieve_character_selection_id(member_id, character_selection) ==
    LET hit == {i \in DOMAIN Roster(member_id) :
                   ClassOf(Roster(member_id)[i]) = character_selection}
    IN  IF hit = {} THEN ""
        ELSE Roster(member_id)[CHOOSE i \in hit : \A j \in hit : i <= j]

RECURSIVE ByPeriodDesc(_, _)
\* ORDER BY activity.period DESC over the rows S of character_activity_stats.
ByPeriodDesc(st, S) ==
    IF S = {} THEN <<>>
    ELSE LET P(si) == st.activity[st.character_activity_stats[si].activity].period
             m == CHOOSE x \in S : \A y \in S : P(y) < P(x) \/ (P(y) = P(x) /\ x <= y)
         IN  <<m>> \o ByPeriodDesc(st, S \ {m})

\* The WHERE clause without the exclusion of a restricted mode.
HistoryRowUnrestricted(st, si, mode, start, end) ==
    LET a == st.character_activity_stats[si].activity
    IN  /\ a \in DOMAIN st.activity
        /\ st.activity[a].period > start /\ st.activity[a].period < end
        /\ HasMode(st, a, mode)

\* The WHERE clause the two history queries share. restrict_mode_id is -1
\* (no mode) for a private mode and private-match-all otherwise.
HistoryRow(st, si, mode, start, end) ==
    LET a == st.character_activity_stats[si].activity
        restrict_mode_id == IF is_private(mode) THEN "-1" ELSE PrivateMatchesAll
    IN  /\ a \in DOMAIN st.activity
        /\ st.activity[a].period > start /\ st.activity[a].period < end
        /\ HasMode(st, a, mode)
        /\ ~HasMode(st, a, restrict_mode_id)

RECURSIVE parse_individual_performance_rows(_, _, _)
parse_individual_performance_rows(st, m, rows) ==
    IF rows = <<>> THEN <<>>
    ELSE LET a == parse_activity(st, m, st.character_activity_stats[Head(rows)].activity)
             s1 == parse_crucible_stats(st, a.m, Head(rows))
         IN  <<[activity_detail |-> a.details,
                performance |-> [stats |-> s1.stats,
                                 player |-> parse_player(st, Head(rows))]]>>
             \o parse_individual_performance_rows(st, s1.m, Tail(rows))

\* The rows of retrieve_activities_for_member_since, in order.
retrieve_activities_for_member_since(st, member_id, mode, start, end) ==
    ByPeriodDesc(st,
        {si \in JoinedStats(st) :
            /\ CharacterOfStats(st, si).member = MemberRowId(st, member_id)
            /\ HistoryRow(st, si, mode, start, end)})

\* get_character_row_id (0: no row, an error)
get_character_row_id(st, member_id, character_id) ==
    LET hit == Rows(st.character,
                    LAMBDA r : /\ r.character_id = character_id
                               /\ r.member \in DOMAIN st.member
                               /\ st.member[r.member].member_id = member_id)
    IN  IF hit = {} THEN 0 ELSE CHOOSE i \in hit : \A j \in hit : i <= j

\* The rows of retrieve_activities_for_character, in order.
retrieve_activities_for_character(st, member_id, character_id, mode, start, end) ==
    ByPeriodDesc(st,
        {si \in JoinedStats(st) :
            /\ st.character_activity_stats[si].character
                   = get_character_row_id(st, member_id, character_id)
            /\ HistoryRow(st, si, mode, start, end)})

\* What a retrieval returns: Ok with a report, or Err.
NoReport == <<>>
RetOk(report) == [ok |-> TRUE, err |-> "", res |-> report]
\* An empty selection reported like any other failure.
RetErrUntyped(err) == [ok |-> FALSE, err |-> "Other", res |-> NoReport]
RetErr(err) == [ok |-> FALSE, err |-> err, res |-> NoReport]

\* The selections of the report tool: an event by row id, or the last event
\* of an actor in a mode, for all roster entries or for the one of a class.
Selections ==
    [by : {"index"}, index : 1 .. NumEvents + 1, member_id : {"m1"},
     selection : {"All"}, mode : {AllPvP}]
    \cup [by : {"last"}, index : {0}, member_id : Members,
          selection : CharacterClassSelections, mode : Modes]
RetrievalFailures == {"store", "api", "manifest"}

\* retrieve_activity_by_index and retrieve_last_activity, with a new
\* ManifestInterface over the dataset db. fail names what fails, if anything:
\* the query of the store, the roster fetch, or a definition query.
RetrieveOutcomes(st, db, sel, fail) ==
    LET byClass == sel.by = "last" /\ sel.selection # "All"
        character_id == retrieve_character_selection_id(sel.member_id, sel.selection)
        rows == IF sel.by = "index" THEN ByIndexRows(st, sel.index)
                ELSE IF byClass THEN LastRowsForCharacter(st, character_id, sel.mode)
                ELSE LastRowsForMember(st, sel.member_id, sel.mode)
    IN  IF fail = "api" THEN (IF byClass THEN {RetErr("Other")} ELSE {})
        ELSE IF byClass /\ character_id = "" THEN
             (IF fail = "none" THEN {RetErr("CharacterDoesNotExist")} ELSE {})
        ELSE IF fail = "store" THEN {RetErr("Other")}
        ELSE IF rows = {} THEN
             (IF fail = "none" THEN {RetErr("ActivityNotFound")} ELSE {})
        ELSE IF fail = "manifest" THEN {RetErr("Other")}
        ELSE {RetOk(populate_activity_data(st, NewManifest(db), a).report) :
                 a \in Latest(st, rows)}

\* A tool process makes one retrieval and ends: the retrieval is the last
\* thing done to the store until the next process.
Retrieved == ev.op \in {"retrieve", "history"}

\* The report tool after its sync: the retrieval of the selected event. The
\* ManifestInterface is the tool's own and ends with it.
Retrieve ==
    /\ pc = "idle" /\ ~Retrieved
    /\ \E sel \in Selections,
          fail \in {"none"} \cup (IF CanFail THEN RetrievalFailures ELSE {}) :
         \E r \in RetrieveOutcomes(store, manifest.manifest_db, sel, fail) :
           /\ ev' = [op |-> "retrieve", c |-> 0, id |-> 0, mode |-> sel.mode,
                     at |-> fail, ok |-> r.ok, again |-> FALSE, twice |-> FALSE,
                     dirty |-> FALSE, page |-> <<>>, sel |-> sel, err |-> r.err,
                     res |-> r.res]
           /\ faults' = IF fail = "none" THEN faults ELSE faults + 1
    /\ UNCHANGED <<world, store, pc, locals, log, lastIns, others>>

\* The periods a history is asked for: all of them, or all after the first.
Periods == {<<0, NumEvents + 1>>, <<1, NumEvents + 1>>}

\* retrieve_activities_since
History ==
    /\ pc = "idle" /\ ~Retrieved
    /\ \E member_id \in Members, selection \in CharacterClassSelections, mode \in Modes,
          period \in Periods,
          fail \in {"none"} \cup (IF CanFail THEN RetrievalFailures ELSE {}) :
         LET character_id == retrieve_character_selection_id(member_id, selection)
             rows == IF selection = "All"
                     THEN retrieve_activities_for_member_since(
                              store, member_id, mode, period[1], period[2])
                     ELSE retrieve_activities_for_character(
                              store, member_id, character_id, mode, period[1], period[2])
             r == IF fail # "none" THEN RetErr("Other")
                  ELSE IF selection # "All" /\ character_id = ""
                  THEN RetErr("CharacterDoesNotExist")
                  ELSE IF selection # "All"
                          /\ get_character_row_id(store, member_id, character_id) = 0
                  THEN RetErr("Other")
                  ELSE RetOk(parse_individual_performance_rows(
                                 store, NewManifest(manifest.manifest_db), rows))
         IN  /\ fail = "api" => selection # "All"
             /\ fail = "manifest" => rows # <<>>
             /\ ev' = [op |-> "history", c |-> 0, id |-> 0, mode |-> mode,
                       at |-> fail, ok |-> r.ok, again |-> FALSE, twice |-> FALSE,
                       dirty |-> FALSE, page |-> <<>>,
                       sel |-> [member_id |-> member_id, selection |-> selection,
                                mode |-> mode, period |-> period],
                       err |-> r.err, res |-> r.res]
             /\ faults' = IF fail = "none" THEN faults ELSE faults + 1
    /\ UNCHANGED <<world, store, pc, locals, log, lastIns, others>>

\* The syncs of the tools over one store, each followed or not by a retrieval.
Next == SyncBegin \/ CharBegin \/ DrainBegin \/ FetchBatch \/ InsertItem
        \/ DrainEnd \/ Discover \/ Retrieve

Spec == Init /\ [][Next]_vars

RECURSIVE StoreOf(_, _)
\* The store after insert_activity of the events of S, in the order of ids,
\* for their first participant.
StoreOf(st, S) ==
    IF S = {} THEN st
    ELSE LET e == CHOOSE x \in S : \A y \in S : x <= y
             with == insert_member_id(st, "m1", "n2")
             c1 == insert_character_id(with, "c1", ClassOf("c1"), MemberRowId(with, "m1"))
         IN  StoreOf(insert_activity(c1, DetailOf(e),
                                     CharacterRowId(c1, "c1", MemberRowId(c1, "m1")),
                                     NoFault).st,
                     S \ {e})

\* A store some syncs have filled, and no sync running.
ReportInit ==
    /\ kindOf \in [EventIds -> ReportKinds \ {"gambit"}]
    /\ periodOf \in Permutations1(NumEvents)
    /\ queue_unique = TRUE
    /\ store \in {StoreOf(EmptyStore, S) : S \in SUBSET EventIds}
    /\ pc = "idle" /\ member = "none" /\ ci = 0 /\ crow = 0 /\ ph = 0
    /\ chunks = <<>> /\ batch = <<>> /\ cur = ZeroResult /\ dr = <<>>
    /\ total = ZeroTotal /\ since = NoSince /\ phases = <<>>
    /\ faults = 0 /\ log = <<>> /\ lastIns = NoInsert /\ ev = Quiet
    /\ HashRest /\ CacheRest /\ OpenRest

ReportNext == Retrieve \/ History
SpecReport == ReportInit /\ [][ReportNext]_vars

\* A store some syncs have filled with events of the kinds a projection meets.
ProjectInit ==
    /\ kindOf \in [EventIds -> ProjectedKinds]
    /\ periodOf \in Permutations1(NumEvents)
    /\ queue_unique = TRUE
    /\ store \in {StoreOf(EmptyStore, S) : S \in SUBSET EventIds}
    /\ pc = "idle" /\ member = "none" /\ ci = 0 /\ crow = 0 /\ ph = 0
    /\ chunks = <<>> /\ batch = <<>> /\ cur = ZeroResult /\ dr = <<>>
    /\ total = ZeroTotal /\ since = NoSince /\ phases = <<>>
    /\ faults = 0 /\ log = <<>> /\ lastIns = NoInsert /\ ev = Quiet
    /\ HashRest /\ CacheRest /\ OpenRest

SpecProject == ProjectInit /\ [][ReportNext]_vars

(* ------------------------- a drain of two batches ---------------------- *)
\* The ids a long queue holds.
QueuedEventIds == 1 .. MaxQueued

\* The store when the first drain of roster entry c1 of actor m1 starts with
\* the ids of earlier discoveries still queued.
QueuedStore ==
    LET st == insert_character_id(insert_member_id(EmptyStore, "m1", "n2"),
                                  "c1", ClassOf("c1"), 1)
    IN  [st EXCEPT !.activity_queue =
            [i \in QueuedEventIds |-> [activity_id |-> i, character |-> 1]]]

\* sync for m1 at the first phase of c1, the queue long enough for two batches.
DrainInit ==
    /\ kindOf \in {[e \in QueuedEventIds |-> k] : k \in {"pub", "prv"}}
    /\ periodOf = [e \in QueuedEventIds |-> e]
    /\ queue_unique \in BOOLEAN
    /\ store = QueuedStore
    /\ pc = "phase" /\ member = "m1" /\ ci = 1 /\ crow = 1 /\ ph = 1
    /\ chunks = <<>> /\ batch = <<>> /\ cur = ZeroResult /\ dr = <<>>
    /\ total = ZeroTotal /\ since = NoSince /\ phases = <<>>
    /\ faults = 0 /\ log = <<>> /\ lastIns = NoInsert /\ ev = Quiet
    /\ HashRest /\ CacheRest /\ OpenRest

\* The store an earlier sync of m1 left behind: events 1 and 2 were queued for
\* roster entry c1, event 2 was stored, and event 1 stayed queued because its
\* detail fetch failed.
LeftoverStore ==
    LET st == insert_character_id(insert_member_id(EmptyStore, "m1", "n2"),
                                  "c1", ClassOf("c1"), 1)
        queued == [st EXCEPT !.activity_queue =
                      <<[activity_id |-> 1, character |-> 1],
                        [activity_id |-> 2, character |-> 1]>>]
    IN  insert_activity(queued, DetailOf(2), 1, NoFault).st

\* The failures a single call may meet when it is looked at alone.
CallFaults == MaxFaults + 1

\* sync for m1 at the first phase of c1 with that store: the call may meet a
\* failure in each of its drain passes.
CountInit ==
    /\ kindOf \in [EventIds -> {"pub", "prv"}]
    /\ periodOf \in Permutations1(NumEvents)
    /\ queue_unique \in BOOLEAN
    /\ store = LeftoverStore
    /\ pc = "phase" /\ member = "m1" /\ ci = 1 /\ crow = 1 /\ ph = 1
    /\ chunks = <<>> /\ batch = <<>> /\ cur = ZeroResult /\ dr = <<>>
    /\ total = ZeroTotal /\ since = NoSince /\ phases = <<>>
    /\ faults = MaxFaults - CallFaults /\ log = <<>> /\ lastIns = NoInsert
    /\ ev = Quiet
    /\ HashRest /\ CacheRest /\ OpenRest

CountNext ==
    CharBegin \/ DrainBegin \/ FetchBatch \/ InsertItem \/ DrainEnd \/ Discover
SpecCount == CountInit /\ [][CountNext]_vars

\* The caller is done with the results of the calls made so far.
ForgetResults ==
    /\ pc = "idle" /\ log # <<>>
    /\ log' = <<>>
    /\ ev' = Quiet
    /\ UNCHANGED <<world, store, pc, member, ci, crow, ph, chunks, batch, cur, dr,
                   total, since, phases, faults, lastIns, others>>

\* sync called again and again, by either actor, on a service where both events
\* are public: every step that can be taken is taken in the end.
LiveInit ==
    /\ kindOf = [e \in EventIds |-> "pub"]
    /\ periodOf \in Permutations1(NumEvents)
    /\ queue_unique \in BOOLEAN
    /\ store = EmptyStore
    /\ pc = "idle" /\ member = "none" /\ ci = 0 /\ crow = 0 /\ ph = 0
    /\ chunks = <<>> /\ batch = <<>> /\ cur = ZeroResult /\ dr = <<>>
    /\ total = ZeroTotal /\ since = NoSince /\ phases = <<>>
    /\ faults = 0 /\ log = <<>> /\ lastIns = NoInsert /\ ev = Quiet
    /\ HashRest /\ CacheRest /\ OpenRest

LiveNext ==
    \/ SyncBegin \/ CharBegin \/ DrainBegin \/ FetchBatch \/ InsertItem \/ DrainEnd
    \/ Discover \/ ForgetResults
SpecLive == LiveInit /\ [][LiveNext]_vars /\ WF_vars(DrainEnd)

DrainNext == DrainBegin \/ FetchBatch \/ InsertItem \/ DrainEnd
SpecDrain == DrainInit /\ [][DrainNext]_vars

(* ----------------------------- opening the store ------------------------ *)
\* SELECT max(version) as max_version FROM version: Err without the table (or
\* when the query fails), NULL on an empty table, else the greatest version.
max_version(mk, fail) ==
    IF fail \/ ~mk.exists THEN [err |-> TRUE, null |-> FALSE, v |-> 0]
    ELSE IF mk.rows = <<>> THEN [err |-> FALSE, null |-> TRUE, v |-> 0]
    ELSE LET vs == {mk.rows[i] : i \in DOMAIN mk.rows}
         IN  [err |-> FALSE, null |-> FALSE,
              v |-> CHOOSE v \in vs : \A w \in vs : w <= v]

\* The test with an older marker only.
should_update_schema_if_older(read) ==
    IF read.err THEN TRUE
    ELSE (IF read.null THEN -1 ELSE read.v) < DB_SCHEMA_VERSION

\* should_update_schema: try_get of a NULL fails, and -1 stands for it.
should_update_schema(read) ==
    IF read.err THEN TRUE
    ELSE (IF read.null THEN -1 ELSE read.v) # DB_SCHEMA_VERSION

\* STORE_DB_SCHEMA, run to its end: every table dropped and created again,
\* and the version of the build recorded.
SchemaScript(st, mk) == [store |-> EmptyStore, version |-> CurrentMarker]
\* STORE_DB_SCHEMA, failed at a statement: nothing done yet, or the tables
\* dropped and the marker not yet written.
SchemaScriptFailed(st, mk) ==
    {[store |-> st, version |-> mk], [store |-> EmptyStore, version |-> NoMarker]}

\* init_with_path on the store file. fail names what fails, if anything: the
\* query of the marker or the schema script.
init_with_path(st, mk, fail) ==
    LET read == max_version(mk, fail = "query")
        update == should_update_schema(read)
    IN  IF ~update THEN {[ok |-> TRUE, store |-> st, version |-> mk, updated |-> FALSE]}
        ELSE IF fail = "script"
        THEN {[ok |-> FALSE, store |-> o.store, version |-> o.version, updated |-> TRUE] :
                 o \in SchemaScriptFailed(st, mk)}
        ELSE {[ok |-> TRUE, store |-> SchemaScript(st, mk).store,
               version |-> SchemaScript(st, mk).version, updated |-> TRUE]}

\* A store file as a tool process finds it: written by some build, holding
\* some events.
OpenInit ==
    /\ kindOf \in [EventIds -> {"pub", "prv"}]
    /\ periodOf \in Permutations1(NumEvents)
    /\ queue_unique = TRUE
    /\ store \in {StoreOf(EmptyStore, S) : S \in SUBSET EventIds}
    /\ version \in Markers /\ handle = "none"
    /\ pc = "idle" /\ member = "none" /\ ci = 0 /\ crow = 0 /\ ph = 0
    /\ chunks = <<>> /\ batch = <<>> /\ cur = ZeroResult /\ dr = <<>>
    /\ total = ZeroTotal /\ since = NoSince /\ phases = <<>>
    /\ faults = 0 /\ log = <<>> /\ lastIns = NoInsert /\ ev = Quiet
    /\ HashRest /\ CacheRest

\* A tool process opens the store.
Open ==
    /\ handle # "ok"
    /\ \E fail \in {"none"} \cup (IF CanFail THEN {"query", "script"} ELSE {}) :
         \E r \in init_with_path(store, version, fail) :
           /\ fail = "script" => r.updated
           /\ store' = r.store /\ version' = r.version
           /\ handle' = IF r.ok THEN "ok" ELSE "err"
           /\ ev' = [op |-> "open", c |-> 0, id |-> 0, mode |-> "", at |-> fail,
                     ok |-> r.ok, again |-> FALSE, twice |-> FALSE, dirty |-> FALSE,
                     page |-> <<>>, updated |-> r.updated,
                     had |-> Len(store.activity)]
           /\ faults' = IF fail = "none" THEN faults ELSE faults + 1
    /\ UNCHANGED <<world, pc, locals, log, lastIns, hashvars, cachevars>>

\* The tool process ends and its handle with it.
Close ==
    /\ handle = "ok" /\ pc = "idle"
    /\ handle' = "none" /\ ev' = Quiet
    /\ UNCHANGED <<world, store, pc, locals, faults, log, lastIns, hashvars,
                   cachevars, version>>

OpenNext == Open \/ Close
SpecOpen == OpenInit /\ [][OpenNext]_vars

(* ------------------------------ the claims ------------------------------ *)
\* Every table but the queue.
TablesOf(st) == [st EXCEPT !.activity_queue = <<>>]
EventRows(st, id) == Cardinality(Rows(st.activity, LAMBDA r : r.activity_id = id))
IsPrefix(s, t) == Len(s) <= Len(t) /\ \A i \in DOMAIN s : s[i] = t[i]

\* C1: when insert_activity is called for an event right after a call for the
\* same event that succeeded, and succeeds too, it changes no row of any table
\* but the queue and the store holds exactly one Event row of that id.
C1_Idempotent ==
    [][(ev'.op = "insert" /\ ev'.twice /\ ev'.ok)
       => /\ TablesOf(store') = TablesOf(store)
          /\ EventRows(store', ev'.id) = 1]_vars
C1_Witness == ev.op = "insert" /\ ev.twice /\ ev.ok /\ EventRows(store, ev.id) = 1

\* C2: a drain item that does not end in a successful insert (the fetch failed,
\* the payload was absent, or insert_activity returned an error) leaves the
\* Queue Entry of its id in the queue.
C2_Claim ==
    [][(ev'.op \in {"insert", "fetch"} /\ ~ev'.ok /\ InQueue(store, ev'.c, ev'.id))
       => InQueue(store', ev'.c, ev'.id)]_vars

\* C3: after an insert_activity that returned success (and so is counted as
\* synced), the Queue Entry of the roster entry and the event is not in the queue.
C3_Claim ==
    [][(ev'.op = "insert" /\ ev'.ok) => ~InQueue(store', ev'.c, ev'.id)]_vars

\* C4: when a statement of _insert_activity fails, insert_activity returns an
\* error, the store is what it was before the call, and the Queue Entry is
\* still in the queue.
C4_Atomic ==
    [][(ev'.op = "insert" /\ ev'.at = "stmt")
       => /\ ~ev'.ok
          /\ store' = store
          /\ InQueue(store', ev'.c, ev'.id)]_vars
C4_Witness == ev.op = "insert" /\ ev.at = "stmt" /\ ev.dirty /\ InQueue(store, ev.c, ev.id)

\* C5, as claimed: when a queue insert of the page fails, _update_activity_queue
\* returns an error and leaves the store as it was; when no queue insert fails,
\* every event of the page that is not excluded is in the queue afterwards.
C5_Claim ==
    [][(ev'.op = "discover" /\ ev'.at # "api")
       => IF ev'.at = "stmt" THEN ~ev'.ok /\ store' = store
          ELSE \A i \in DOMAIN ev'.page : InQueue(store', ev'.c, ev'.page[i])]_vars
\* C5, amended: when a queue insert of the page, or the BEGIN or the COMMIT of
\* the transaction, fails, _update_activity_queue returns an error and leaves the
\* store as it was; when none of them fails it returns success and every event
\* of the page that is not excluded is in the queue afterwards.
C5_PageAtomic ==
    [][(ev'.op = "discover" /\ ev'.at # "api")
       => IF ev'.at \in {"begin", "stmt", "commit"} THEN ~ev'.ok /\ store' = store
          ELSE /\ ev'.ok
               /\ \A i \in DOMAIN ev'.page : InQueue(store', ev'.c, ev'.page[i])]_vars
C5_Witness == ev.op = "discover" /\ ev.at = "stmt" /\ ev.dirty /\ ~ev.ok

\* C6: after the queue population of the private scope has failed, the run goes
\* on with the discovery of the public scope of the same roster entry, and sync
\* has not returned.
C6_Claim ==
    [][(ev'.op = "discover" /\ ev'.mode = PrivateMatchesAll
        /\ ev'.at \in {"begin", "stmt", "commit"})
       => /\ pc' = "phase" /\ SyncPhases[ph'] = "discover_pub"
          /\ log' = log]_vars

\* C7, as claimed: every drain of a roster entry is preceded by a discover of
\* the same sync call for that roster entry.
C7_Claim ==
    \A i \in DOMAIN phases :
        phases[i] = "drain" => \E j \in 1 .. i - 1 : phases[j] # "drain"
\* C7, amended: for each roster entry sync runs Drain, Discover of the private
\* scope, Discover of the public scope, Drain, in this order: the first drain
\* precedes every discover of the call and the second follows both.
C7_Order ==
    /\ IsPrefix(phases, <<"drain", "discover_prv", "discover_pub", "drain">>)
    /\ (pc = "drain_end" /\ ph = 4) => Len(phases) = 4
    /\ pc = "char" /\ ci > 1 => Len(phases) = 4
C7_Witness ==
    pc = "char" /\ phases = <<"drain", "discover_prv", "discover_pub", "drain">>

\* C8: from an empty store, for the actor with one roster entry, when the
\* collaborator knows of exactly one event of that roster entry and nothing
\* fails, the first sync returns {synced: 1, queued: 0} and the second
\* {synced: 0, queued: 0}.
OneEventOf(ch) ==
    Cardinality({e \in EventIds : ch \in Participants(DetailOf(e))}) = 1
TwoSyncsOf(m) ==
    /\ pc = "idle" /\ Len(log) = 2 /\ faults = 0
    /\ log[1].member = m /\ log[2].member = m
C8_EndToEnd ==
    (TwoSyncsOf("m2") /\ OneEventOf("c3"))
    => /\ log[1].ok /\ log[1].synced = 1 /\ log[1].queue = 0
       /\ log[2].ok /\ log[2].synced = 0 /\ log[2].queue = 0
C8_Witness == TwoSyncsOf("m2") /\ OneEventOf("c3") /\ log[1].synced = 1

\* C9: of two successful sync calls of an actor with no successful sync of
\* that actor between them, the later passes, for every roster entry and
\* scope, a since-id at least as large as the earlier.
C9_Claim ==
    \A i, j \in DOMAIN log :
        (/\ i < j /\ log[i].ok /\ log[j].ok /\ log[i].member = log[j].member
         /\ \A k \in (i + 1) .. (j - 1) : ~(log[k].ok /\ log[k].member = log[i].member))
        => \A key \in DOMAIN log[i].since \cap DOMAIN log[j].since :
               log[i].since[key] <= log[j].since[key]

\* C10: convert_hash_to_id gives the two's-complement signed reading of the
\* 32 bits of the hash (bit 31 weighs -2^31): 0x80000000 gives -2147483648,
\* 0x00000001 gives 1, 0xFFFFFFFF gives -1, the id lies in [-2^31, 2^31 - 1],
\* and two different hashes give two different ids.
MinI32 == -2147483647 - 1
TwosComplement(h) ==
    (IF h[1] >= 32768 THEN MinI32 ELSE 0) + ((h[1] % 32768) * 65536 + h[2])
C10_Convert ==
    id1 # <<>>
    => /\ id1[1] = TwosComplement(h1)
       /\ MinI32 <= id1[1] /\ id1[1] <= 2147483647
       /\ (h1[1] >= 32768) = (id1[1] < 0)
       /\ h1 # h2 => id1[1] # id2[1]
       /\ h1 = <<32768, 0>> => id1[1] = MinI32
       /\ h1 = <<0, 1>> => id1[1] = 1
       /\ h1 = <<65535, 65535>> => id1[1] = -1
C10_Witness == h1 = <<32768, 0>> /\ h2 = <<65535, 65535>> /\ id1 = <<MinI32>> /\ id2 = <<-1>>

\* C11: a lookup of an id the reference dataset has no row for, whose query
\* does not fail, returns None (not Err), leaves the three caches as they
\* were, and has queried the dataset: so does every later lookup of that id.
InDataset(m, type, key) == CacheKey(type, key) \in DOMAIN TableOf(m, type)
CachesOf(m) == [type \in DefinitionTypes |-> CacheOf(m, type)]
C11_PositiveOnly ==
    [][(lk'.op = "lookup" /\ lk'.ok /\ ~InDataset(manifest, lk'.type, lk'.key))
       => /\ ~lk'.some
          /\ lk'.queried
          /\ CachesOf(manifest') = CachesOf(manifest)]_vars
C11_Witness ==
    /\ lk.op = "lookup" /\ lk.ok /\ ~lk.some /\ lk.queried /\ lk.before
    /\ ~InDataset(manifest, lk.type, lk.key)

\* C12: a lookup that finds a definition caches it; no step removes or
\* changes a cache entry; every cached value is the payload the dataset holds
\* for the id; a lookup of a cached id returns the cached value without
\* querying the dataset.
C12_CacheGrows ==
    [][/\ \A type \in DefinitionTypes :
            /\ \A k \in DOMAIN CacheOf(manifest, type) :
                 /\ k \in DOMAIN CacheOf(manifest', type)
                 /\ CacheOf(manifest', type)[k] = CacheOf(manifest, type)[k]
            /\ \A k \in DOMAIN CacheOf(manifest', type) :
                 /\ k \in DOMAIN TableOf(manifest', type)
                 /\ CacheOf(manifest', type)[k] = TableOf(manifest', type)[k]
       /\ (lk'.op = "lookup" /\ lk'.ok /\ lk'.some)
          => CacheKey(lk'.type, lk'.key) \in DOMAIN CacheOf(manifest', lk'.type)
       /\ (lk'.op = "lookup"
           /\ CacheKey(lk'.type, lk'.key) \in DOMAIN CacheOf(manifest, lk'.type))
          => /\ lk'.ok /\ lk'.some /\ ~lk'.queried
             /\ lk'.v = CacheOf(manifest, lk'.type)[CacheKey(lk'.type, lk'.key)]]_vars
C12_Witness ==
    /\ lk.op = "lookup" /\ lk.ok /\ lk.some /\ ~lk.queried /\ lk.before
    /\ \A type \in DefinitionTypes : DOMAIN CacheOf(manifest, type) # {}

\* The rows of a table about the event with row id arow, in the order stored.
RowsAbout(t, arow) == SelectSeq(t, LAMBDA r : r.activity = arow)
Reported == ev.op = "retrieve" /\ ev.ok
ReportedEvent == ev.res.details.index_id
PrivateTagged(st, arow) ==
    \E i \in DOMAIN st.modes :
        st.modes[i].activity = arow /\ st.modes[i].mode = "PrivateMatchesAll"

\* C13: in a report, the team of the i-th Team Outcome row the store holds for
\* the event is named by the i-th name of Alpha, Bravo, Charlie, Delta, Echo,
\* Foxtrot: rows inserted as team ids 1, 2, 3 give Alpha, Bravo, Charlie.
C13_TeamNames ==
    Reported
    => LET rows == RowsAbout(store.team_result, ReportedEvent) IN
       /\ \A i \in DOMAIN rows :
            /\ rows[i].team_id \in DOMAIN ev.res.teams
            /\ ev.res.teams[rows[i].team_id].display_name
               = <<"Alpha", "Bravo", "Charlie", "Delta", "Echo", "Foxtrot">>[i]
       /\ (Len(rows) = 3 /\ \A i \in 1 .. 3 : rows[i].team_id = i)
          => /\ ev.res.teams[1].display_name = "Alpha"
             /\ ev.res.teams[2].display_name = "Bravo"
             /\ ev.res.teams[3].display_name = "Charlie"
C13_Witness ==
    /\ Reported
    /\ DOMAIN ev.res.teams = {1, 2, 3}
    /\ ev.res.teams[3].display_name = "Charlie"
    /\ Len(RowsAbout(store.team_result, ReportedEvent)) = 3

\* C14: the report of an event with no Team Outcome row has exactly one team,
\* with id 253, and that team holds one performance for each Actor Event
\* Outcome row of the event.
C14_NoTeams ==
    (Reported /\ RowsAbout(store.team_result, ReportedEvent) = <<>>)
    => /\ DOMAIN ev.res.teams = {253}
       /\ ev.res.teams[253].id = 253
       /\ LET ps == ev.res.teams[253].player_performances IN
          /\ {ps[i].stats.index : i \in DOMAIN ps}
             = {si \in DOMAIN store.character_activity_stats :
                   store.character_activity_stats[si].activity = ReportedEvent}
          /\ Len(ps) = Len(RowsAbout(store.character_activity_stats, ReportedEvent))
C14_Witness ==
    /\ Reported /\ RowsAbout(store.team_result, ReportedEvent) = <<>>
    /\ DOMAIN ev.res.teams = {253}
    /\ Len(ev.res.teams[253].player_performances) = 2
    /\ \A i \in 1 .. 2 : ev.res.teams[253].player_performances[i].stats.team # 253

\* C15: a history asked for a mode that is not private holds no performance
\* of an event tagged private-match-all; a history asked for a private mode
\* holds the performance of every Actor Event Outcome of the actor (or of the
\* roster entry) whose event lies in the period and carries the mode tag.
HistoryOf(sel) ==
    {si \in DOMAIN store.character_activity_stats :
        LET row == store.character_activity_stats[si]
            ch == store.character[row.character]
        IN  /\ store.member[ch.member].member_id = sel.member_id
            /\ sel.selection # "All" => ClassOf(ch.character_id) = sel.selection
            /\ store.activity[row.activity].period > sel.period[1]
            /\ store.activity[row.activity].period < sel.period[2]
            /\ \E i \in DOMAIN store.modes :
                 store.modes[i].activity = row.activity /\ store.modes[i].mode = sel.mode}
C16_Claim ==
    (Reported /\ ev.sel.by = "last" /\ ev.sel.selection = "All"
     /\ ev.sel.mode \notin {"PrivateMatchesAll", "PrivateMatchesControl"})
    => ~PrivateTagged(store, ReportedEvent)

\* C18: no step of a sync call removes or alters a stored Event or one of its
\* sub-rows: each of the event tables only gets rows appended, so the set of
\* stored Event ids only grows.
C18_Preserved ==
    [][/\ \A t \in {"activity", "team_result", "modes", "character_activity_stats",
                    "medal_result", "weapon_result"} :
            IsPrefix(store[t], store'[t])
       /\ {store.activity[i].activity_id : i \in DOMAIN store.activity}
          \subseteq {store'.activity[i].activity_id : i \in DOMAIN store'.activity}]_vars
C18_Witness ==
    /\ ev.op = "insert" /\ ev.at = "stmt" /\ ev.dirty /\ ~ev.ok
    /\ Len(store.activity) > 0 /\ Len(store.character_activity_stats) > 0

\* C20: a retrieval by index or of the last event returns ActivityNotFound
\* exactly when its query ran and no stored event matches the selection; a
\* failure of the store, of the roster fetch or of a definition query returns
\* another error; and after a sync call that failed, a selection that a stored
\* event matches is still served.
Matches(sel) ==
    \E si \in DOMAIN store.character_activity_stats :
        LET row == store.character_activity_stats[si]
            ch == store.character[row.character]
        IN  IF sel.by = "index" THEN row.activity = sel.index
            ELSE /\ store.member[ch.member].member_id = sel.member_id
                 /\ sel.selection # "All" => ClassOf(ch.character_id) = sel.selection
                 /\ \E i \in DOMAIN store.modes :
                      store.modes[i].activity = row.activity
                      /\ store.modes[i].mode = sel.mode
Resolves(sel) ==
    (sel.by = "last" /\ sel.selection # "All")
    => \E i \in DOMAIN Roster(sel.member_id) :
          ClassOf(Roster(sel.member_id)[i]) = sel.selection
LastSyncFailed == log # <<>> /\ ~log[Len(log)].ok
C20_NotFoundWitness ==
    ev.op = "retrieve" /\ ev.err = "ActivityNotFound" /\ Len(store.activity) > 0

\* C17: when init_with_path reads a marker equal to the current schema
\* version, it leaves every row and the marker as they were and returns Ok;
\* when the marker is absent, unreadable or different, it runs the schema
\* script, and when it then returns Ok the store is empty at the current
\* version.
MarkerIsCurrent(mk) ==
    /\ mk.exists /\ mk.rows # <<>>
    /\ \E i \in DOMAIN mk.rows :
         mk.rows[i] = 6 /\ \A j \in DOMAIN mk.rows : mk.rows[j] <= 6
C17_Versioning ==
    [][ev'.op = "open"
       => IF MarkerIsCurrent(version) /\ ev'.at # "query"
          THEN /\ store' = store /\ version' = version
               /\ handle' = "ok" /\ ~ev'.updated
          ELSE /\ ev'.updated
               /\ handle' = "ok" <=> ev'.at # "script"
               /\ handle' = "ok"
                  => /\ store' = EmptyStore
                     /\ version' = [exists |-> TRUE, rows |-> <<6>>]]_vars
C17_Witness ==
    /\ ev.op = "open" /\ ev.at = "none" /\ ev.updated /\ ev.had = NumEvents
    /\ handle = "ok" /\ store = EmptyStore /\ version = CurrentMarker

\* C19: in the drain loop a fetch error, an empty payload or an insert error
\* for one id takes that result off the batch and nothing else: the rest of
\* the batch and the later batches stay to be done, and sync does not return.
\* When the drain ends, every id of the queue has been fetched, and all but
\* the ids that met a failure are stored and counted.
Unstored == {id \in 1 .. MaxQueued : ~\E i \in DOMAIN store.activity :
                                         store.activity[i].activity_id = id}
C19_AllDone ==
    pc = "drain_end"
    => /\ chunks = <<>> /\ batch = <<>> /\ log = <<>>
       /\ cur.available = MaxQueued
       /\ Cardinality(Unstored) <= faults
       /\ cur.synced >= MaxQueued - faults
C19_Isolation ==
    [][/\ (pc = "insert" /\ ~ev'.ok)
          => /\ ev'.op \in {"fetch", "insert"}
             /\ batch' = SubSeq(batch, 2, Len(batch))
             /\ chunks' = chunks
             /\ log' = log
             /\ pc' = IF Len(batch) > 1 THEN "insert"
                      ELSE IF chunks # <<>> THEN "fetch" ELSE "drain_end"
       /\ C19_AllDone']_vars
C19_Witness ==
    /\ pc = "drain_end" /\ faults > 0 /\ Unstored = {1}
    /\ cur.synced = MaxQueued - 1

\* C21: find(hash) that does not fail returns, in the order of the tables, the
\* json of each row whose id is the 32-bit two's complement of the hash, over
\* the five tables that have an id column; it returns nothing of the table
\* without one, and the empty list when no table holds the id.
MatchesIn(m, t, h) ==
    IF TwosComplement(h) \in DOMAIN m.manifest_db[t]
    THEN <<m.manifest_db[t][TwosComplement(h)]>> ELSE <<>>
C21_WitnessEmpty == lk.op = "find" /\ lk.ok /\ lk.out = <<>>

\* C22: find(hash) returns an error when more than one row is found for the
\* hash across the tables.
C22_Claim ==
    (lk.op = "find" /\ lk.at = "none"
     /\ Len(FindRows(manifest, get_tables_with_id_column(manifest),
                     convert_hash_to_id(lk.key))) > 1)
    => ~lk.ok

\* C29: for each of the six definition types, a lookup right after a lookup of
\* the same id that found a definition does not query the reference dataset.
C29_Claim ==
    [][(lk.op = "lookup" /\ lk.ok /\ lk.some
        /\ lk'.op = "lookup" /\ lk'.type = lk.type /\ lk'.key = lk.key)
       => ~lk'.queried]_vars
\* The same for the types that have a cache.
C29_Cached ==
    [][(lk.op = "lookup" /\ lk.ok /\ lk.some /\ lk.type \in {"activity", "item", "stats"}
        /\ lk'.op = "lookup" /\ lk'.type = lk.type /\ lk'.key = lk.key)
       => ~lk'.queried]_vars

\* C23: the drain splits the ids it read from the queue, in order, into
\* batches of 24 and a last one of at most 24; a batch is fetched whole, and
\* only when no result of the batch before is left to insert; while results
\* are inserted no further batch is fetched; so each Queue Entry read is
\* fetched once.
RECURSIVE Flatten(_)
Flatten(ss) == IF ss = <<>> THEN <<>> ELSE Head(ss) \o Flatten(Tail(ss))
C23_Batches ==
    [][/\ (pc = "phase" /\ pc' \in {"fetch", "drain_end"})
          => /\ Flatten(chunks') = QueuedIds(store, crow)
             /\ \A k \in DOMAIN chunks' :
                  /\ Len(chunks'[k]) >= 1 /\ Len(chunks'[k]) <= 24
                  /\ k < Len(chunks') => Len(chunks'[k]) = 24
             /\ batch' = <<>>
       /\ pc = "fetch"
          => /\ batch = <<>> /\ chunks # <<>>
             /\ [i \in DOMAIN batch' |-> batch'[i].id] = chunks[1]
             /\ chunks' = SubSeq(chunks, 2, Len(chunks))
             /\ store' = store /\ pc' = "insert"
       /\ pc = "insert"
          => /\ chunks' = chunks
             /\ batch' = SubSeq(batch, 2, Len(batch))
             /\ pc' = "fetch" <=> (Len(batch) = 1 /\ chunks # <<>>)
             /\ pc' = "insert" <=> Len(batch) > 1]_vars
C23_Witness ==
    /\ pc = "fetch" /\ batch = <<>> /\ cur.synced = 24
    /\ chunks = <<<<25, 26>>>>

\* The Queue Entries a step appended, in order, as event ids.
Appended ==
    [i \in 1 .. Len(store'.activity_queue) - Len(store.activity_queue) |->
        store'.activity_queue[Len(store.activity_queue) + i].activity_id]
\* The events the collaborator has for roster entry c1 in the scope.
PageEvents(mode) ==
    {e \in DOMAIN kindOf :
        IF mode = "AllPvP" THEN kindOf[e] \in {"pub", "gambit_pub", "gambit_b_pub"}
        ELSE kindOf[e] \in {"prv", "gambit", "gambit_b"}}
HasGambitHash(e) == kindOf[e] \in {"gambit", "gambit_b", "gambit_pub", "gambit_b_pub"}

\* C24: the Queue Entries a discover appends for one page are in the order of
\* the events' periods, oldest first: the reverse of the order the
\* collaborator returned them in.
C24_OldestFirst ==
    [][(ev'.op = "discover" /\ ev'.ok)
       => /\ IsPrefix(store.activity_queue, store'.activity_queue)
          /\ \A i, j \in DOMAIN Appended :
               i < j => periodOf[Appended[i]] < periodOf[Appended[j]]
          /\ Appended = ev'.page]_vars
C24_Witness ==
    /\ ev.op = "discover" /\ ev.ok /\ ev.page = <<2, 1>>
    /\ periodOf[2] < periodOf[1]
    /\ Len(store.activity_queue) >= 2
    /\ store.activity_queue[Len(store.activity_queue)].activity_id = 1

\* C25: no Queue Entry is ever made for an event whose director-activity hash
\* is 2526740498 or 248695599, in either scope; a discover that succeeds
\* queues every other event of the page and counts those only.
C25_GambitExcluded ==
    [][/\ \A i \in DOMAIN store'.activity_queue :
            /\ ~HasGambitHash(store'.activity_queue[i].activity_id)
            /\ DetailOf(store'.activity_queue[i].activity_id).director_activity_hash
               \notin {<<38555, 18>>, <<3794, 52015>>}
       /\ (ev'.op = "discover" /\ ev'.ok)
          => /\ {Appended[i] : i \in DOMAIN Appended}
                = {e \in PageEvents(ev'.mode) : ~HasGambitHash(e)}
             /\ ev'.total = Cardinality({e \in PageEvents(ev'.mode) : ~HasGambitHash(e)})
             /\ ev'.total = Len(Appended)]_vars
C25_Witness ==
    /\ ev.op = "discover" /\ ev.ok /\ ev.mode = "AllPvP" /\ ev.total = 1
    /\ \E e \in DOMAIN kindOf : kindOf[e] = "gambit_b_pub"
    /\ \E e \in DOMAIN kindOf : kindOf[e] = "pub"

\* C26: when the transaction of insert_activity has committed, insert_activity
\* returns success and the drain counts the event as synced, whether PRAGMA
\* OPTIMIZE succeeds or fails.
C26_Claim ==
    [][(ev'.op = "insert" /\ ev'.at \in {"none", "optimize"})
       => /\ ev'.ok
          /\ cur'.synced = cur.synced + 1]_vars

\* C27: the since-id of a discover is the greatest event id among the stored
\* Events of the roster entry that carry the mode tag of the scope, and 0 when
\* there is none.
StoredIdsOf(st, character_row_id, mode) ==
    {st.activity[a].activity_id : a \in
        {a \in DOMAIN st.activity :
            /\ \E i \in DOMAIN st.character_activity_stats :
                 /\ st.character_activity_stats[i].activity = a
                 /\ st.character_activity_stats[i].character = character_row_id
            /\ \E i \in DOMAIN st.modes :
                 st.modes[i].activity = a /\ st.modes[i].mode = mode}}
C27_Claim ==
    [][ev'.op = "discover"
       => LET ids == StoredIdsOf(store, ev'.c, ev'.mode)
          IN  ev'.id = IF ids = {} THEN 0
                       ELSE CHOOSE x \in ids : \A y \in ids : y <= x]_vars

\* C28: after any calls of insert_member_id and insert_character_id the store
\* holds one Actor row per remote member id and one Roster Entry row per
\* remote character id and Actor; a call returns the row of its remote id, the
\* same row as every call before; the Actor's display name is that of the
\* last call and a Roster Entry's class that of the first.
C28_Upserts ==
    [][/\ \A i, j \in DOMAIN store'.member :
            store'.member[i].member_id = store'.member[j].member_id => i = j
       /\ \A i, j \in DOMAIN store'.character :
            (/\ store'.character[i].character_id = store'.character[j].character_id
             /\ store'.character[i].member = store'.character[j].member) => i = j
       /\ IsPrefix([i \in DOMAIN store.member |-> store.member[i].member_id],
                   [i \in DOMAIN store'.member |-> store'.member[i].member_id])
       /\ IsPrefix(store.character, store'.character)
       /\ (ev'.op = "upsert_member" /\ ev'.ok)
          => /\ ev'.row \in DOMAIN store'.member
             /\ store'.member[ev'.row] = [member_id |-> ev'.key, display_name |-> ev'.arg]
             /\ ev'.was # 0 => ev'.row = ev'.was
             /\ \A i \in DOMAIN store.member :
                  i # ev'.row => store'.member[i] = store.member[i]
             /\ Len(store'.member) = Len(store.member) + (IF ev'.was = 0 THEN 1 ELSE 0)
       /\ (ev'.op = "upsert_character" /\ ev'.ok)
          => /\ ev'.row \in DOMAIN store'.character
             /\ store'.character[ev'.row].character_id = ev'.key
             /\ store'.character[ev'.row].member = ev'.on
             /\ ev'.was # 0 => (ev'.row = ev'.was /\ store' = store)
             /\ ev'.was = 0 => store'.character[ev'.row].class = ev'.arg
             /\ Len(store'.character)
                = Len(store.character) + (IF ev'.was = 0 THEN 1 ELSE 0)]_vars
C28_Witness ==
    /\ ev.op = "upsert_character" /\ ev.ok /\ ev.was # 0 /\ ev.arg = "Warlock"
    /\ store.character[ev.row].class = "Titan"
    /\ Len(store.member) = 2 /\ store.member[1].display_name = "n2"

\* The failures the program met during the call of the k-th log entry.
FailedDuring(k) == log[k].failed - (IF k = 1 THEN 0 ELSE log[k - 1].failed)

\* The Queue Entries the roster entries of actor m have in the queue.
QueueOfActor(st, m) ==
    {i \in DOMAIN st.activity_queue :
        \E k \in DOMAIN Roster(m) :
            st.activity_queue[i].character =
                CharacterRowId(st, Roster(m)[k], MemberRowId(st, m))}

\* sync returned success and met no failure on the way.
CleanReturn ==
    /\ pc = "idle" /\ log # <<>>
    /\ log[Len(log)].ok /\ FailedDuring(Len(log)) = 0

\* C30: when sync returns after a call in which every detail fetch returned a
\* payload and every store operation succeeded, the queue of each roster entry
\* of the actor is empty.
C30_Claim ==
    CleanReturn => QueueOfActor(store, log[Len(log)].member) = {}

\* What a clean call leaves in the queue is only events the store already holds.
C30_OnlyStored ==
    CleanReturn =>
        \A i \in QueueOfActor(store, log[Len(log)].member) :
            EventRows(store, store.activity_queue[i].activity_id) > 0


\* C31: the still-queued count sync returns is the number of Queue Entries the
\* roster entries of the actor have in the queue when sync returns.
C31_Claim ==
    (pc = "idle" /\ log # <<>> /\ log[Len(log)].ok)
    => log[Len(log)].queue = Cardinality(QueueOfActor(store, log[Len(log)].member))

\* An id that failed in both drain passes of the call is counted twice.
C31_BothPasses ==
    ~(/\ pc = "idle" /\ log # <<>> /\ log[Len(log)].ok
      /\ log[Len(log)].synced = 0 /\ log[Len(log)].queue = 2
      /\ store.activity = LeftoverStore.activity
      /\ store.activity_queue = LeftoverStore.activity_queue
      /\ Cardinality(QueueOfActor(store, "m1")) = 1)


\* C32: the synced count grows by the Events an insert newly stores: an insert
\* adds one to the count exactly when it adds the Event row, so a call returns
\* the number of distinct Events it stored.
C32_Claim ==
    [][ev'.op = "insert"
       => cur'.synced - cur.synced = Len(store'.activity) - Len(store.activity)]_vars

\* An id whose Event row existed before the insert is not counted.
C32_NotCountedAgain ==
    [][(ev'.op = "insert" /\ get_activity_row_id(store, ev'.id) # 0)
       => cur'.synced = cur.synced]_vars


\* No two rows of the queue hold the same (roster entry, event id) pair.
NoDuplicates(st) ==
    \A i, j \in DOMAIN st.activity_queue :
        (/\ st.activity_queue[i].character = st.activity_queue[j].character
         /\ st.activity_queue[i].activity_id = st.activity_queue[j].activity_id)
        => i = j

C33_WhenUnique == queue_unique => NoDuplicates(store)


\* C34: the failures of a run are finitely many and the service has no new
\* events, so for an actor whose sync is called again and again the queue of
\* its roster entries is empty from some call on.
C34_Claim ==
    \A m \in Members :
        ([]<>(member = m /\ pc = "drain_end"))
        => <>[](QueueOfActor(store, m) = {})


\* What stays in the queue of such an actor for ever is only events the store
\* already holds.
C34_OnlyStored ==
    \A m \in Members :
        ([]<>(member = m /\ pc = "drain_end"))
        => <>[](\A i \in QueueOfActor(store, m) :
                    EventRows(store, store.activity_queue[i].activity_id) > 0)


\* C35: whatever the order in which the fetches of a batch complete, the loop
\* over the batch takes the ids in the order they were read from the queue, each
\* with the result of its own fetch: the inserts, and so the store, the queue
\* and the counts, do not depend on the completion order.
C35_Claim ==
    [][pc = "fetch"
       => /\ Len(batch') = Len(Head(chunks))
          /\ \A i \in DOMAIN batch' : batch'[i].id = Head(chunks)[i]]_vars

\* A batch whose last fetch completed first has its first id inserted first.
C35_Witness ==
    /\ ev.op = "insert" /\ ev.ok /\ ev.id = 1
    /\ Len(batch) > 0 /\ batch[1].id = 2 /\ batch[1].done = 1


\* C36: when insert_activity or _update_activity_queue returns, with success
\* or with the error of one of its data statements, the transaction it began
\* is closed: it was committed or rolled back.
C36_Claim ==
    [][(ev'.op \in {"insert", "discover"} /\ ev'.at \in {"none", "stmt"})
       => ~ev'.txn]_vars

\* An insert whose data statement failed after rows had been written.
C36_Witness ==
    ev.op = "insert" /\ ev.at = "stmt" /\ ev.dirty /\ ~ev.ok /\ ~ev.txn

\* A page whose queue insert failed after an entry had been written.
C36_WitnessPage ==
    ev.op = "discover" /\ ev.at = "stmt" /\ ev.dirty /\ ~ev.ok /\ ~ev.txn


\* The Actor Event Outcome rows the teams of the report hold a performance of,
\* one element per performance.
AttachedRows(teams) ==
    UNION {{<<t, i>> : i \in DOMAIN teams[t].player_performances} : t \in DOMAIN teams}

\* C37: the performances attached to the teams of a projected report are
\* exactly the Actor Event Outcome rows of the event, each in exactly one team.
C37_Claim ==
    Reported
    => LET teams == ev.res.teams
           outcomes == {si \in DOMAIN store.character_activity_stats :
                           store.character_activity_stats[si].activity = ReportedEvent}
       IN  /\ {teams[x[1]].player_performances[x[2]].stats.index :
                  x \in AttachedRows(teams)} = outcomes
           /\ Cardinality(AttachedRows(teams)) = Cardinality(outcomes)


\* The Queue Entries of the roster entries other than c, in the order of the queue.
QueueOfOthers(st, c) == SelectSeq(st.activity_queue, LAMBDA r : r.character # c)

\* C38: a step of the drain for roster entry c (the read of the queue, the
\* fetches, an insert, the return) leaves the Queue Entries of every other
\* roster entry as they are, and adds no entry for c.
C38_Frame ==
    [][(pc \in {"fetch", "insert", "drain_end"}
        \/ (pc = "phase" /\ SyncPhases[ph] = "drain"))
       => /\ QueueOfOthers(store', crow) = QueueOfOthers(store, crow)
          /\ \A i \in DOMAIN store'.activity_queue :
                \E j \in DOMAIN store.activity_queue :
                    store'.activity_queue[i] = store.activity_queue[j]]_vars

\* The insert for one roster entry removed its entry of an event while another
\* roster entry's entry of the same event stayed.
C38_Witness ==
    /\ ev.op = "insert" /\ ev.ok
    /\ ~InQueue(store, ev.c, ev.id)
    /\ \E i \in DOMAIN store.activity_queue :
          /\ store.activity_queue[i].activity_id = ev.id
          /\ store.activity_queue[i].character # ev.c


\* C39: a drain pass has synced at most as many ids as it read from the queue,
\* so the queue count sync computes for a roster entry, and the sum it returns,
\* is never below zero.
C39_NoUnderflow ==
    /\ cur.synced <= cur.available
    /\ \A i \in DOMAIN dr : dr[i].synced <= dr[i].available
    /\ total.queue >= 0
    /\ \A k \in DOMAIN log : log[k].queue >= 0

\* A pass read the same id twice and counted both: the second insert found the
\* event stored by the first.
C39_Witness ==
    /\ pc = "drain_end" /\ cur.available = 2 /\ cur.synced = 2
    /\ ev.op = "insert" /\ ev.ok /\ ev.again /\ ev.twice


\* C40: a sync whose roster fetch fails returns an error at once: the store is
\* as it was, no fetch of a detail is under way and no part of the call is left.
C40_Claim ==
    [][(pc = "idle" /\ Len(log') > Len(log))
       => /\ ~log'[Len(log')].ok
          /\ store' = store
          /\ pc' = "idle" /\ chunks' = <<>> /\ batch' = <<>> /\ member' = "none"]_vars

\* The roster fetch of an actor the store does not know failed when the store
\* held rows of another actor: the actor has no row.
C40_Witness ==
    /\ pc = "idle" /\ log # <<>> /\ ~log[Len(log)].ok
    /\ store.member # <<>>
    /\ MemberRowId(store, log[Len(log)].member) = 0

====
